---- MODULE Spec2Model ----
(***************************************************************************)
(* Benchmark execution engine of the sorting-algorithms repository:        *)
(* BenchmarkRunner (run / runTestsForAlgorithm / measurePerformance /      *)
(* checkForBailOut), the size schedule, the scenario compatibility filter, *)
(* the test-data generator and the registered sorting functions.           *)
(*                                                                         *)
(* Times are whole ticks, TicksPerMs ticks to the millisecond; the         *)
(* settings of benchmark.config.ts stay in milliseconds and are converted  *)
(* with ToTicks where the code compares them with a measured time.         *)
(***************************************************************************)
EXTENDS Integers, Sequences, FiniteSets, TLC

VARIABLES
    pc,                   \* position of run(): "idle", "alg", "scen", "size", "done"
    registry,             \* ALGORITHMS_TO_TEST as imported by the runner
    catalog,              \* scenariosToTest as imported by the filter
    sizes,                \* PERFORMANCE_TEST_SIZES
    settings,             \* BenchmarkSettings (the three thresholds, in ms)
    testData,             \* const testData of run(): scenario name -> size -> #arrays
    ai,                   \* index of the algorithm of the for-of loop of run()
    compatibleScenarios,  \* const compatibleScenarios of runTestsForAlgorithm
    si,                   \* index of the scenario of the for-of loop
    zi,                   \* index of the size of the for-of loop
    previousResults,      \* BenchmarkRunner.previousResults (a Map: key -> {size, time})
    abandonedScenarios,   \* BenchmarkRunner.abandonedScenarios (a Set of keys)
    results,              \* ResultManager.results
    invoked,              \* history: <<algorithm name, scenario name>> of every fn call
    saved,                \* what save() wrote, <<>> before
    fault,                \* what failed in the run: "none", "fn", "mkdir", "write"
    errorsLogged,         \* number of calls of logger.error
    lastCheck,            \* a call of checkForBailOut on its own: its arguments
    filterAlg,            \* argument of a call of getCompatibleScenariosFor
    filterResult,         \* its result
    test,                 \* one case of the correctness suite: input, outputs
    sampleCall,           \* two calls of getSampleSize: the sizes, the counts
    measurement,          \* calls of measurePerformance on one testArrays list
    generation,           \* one call of a dataset generator: arguments, outcome
    radixCall,            \* one call of bitwiseRadixSort: input, passes, output
    quickCall,            \* one call of quickSort: input, recursive calls, output
    runs                  \* history: the state each later call of run() started from

vars == <<pc, registry, catalog, sizes, settings, testData, ai, compatibleScenarios,
          si, zi, previousResults, abandonedScenarios, results, invoked, saved,
          fault, errorsLogged,
          lastCheck, filterAlg, filterResult, test, sampleCall, measurement,
          generation, radixCall, quickCall, runs>>

runnerVars == <<pc, registry, catalog, sizes, settings, testData, ai, compatibleScenarios,
                si, zi, previousResults, abandonedScenarios, results, invoked, saved,
                fault, errorsLogged, runs>>

faultVars == <<fault, errorsLogged>>

functionVars == <<generation, radixCall, quickCall>>

unitVars == <<lastCheck, filterAlg, filterResult, test, sampleCall, measurement,
              generation, radixCall, quickCall>>

NoValue == "undefined"

----------------------------------------------------------------------------
(* Bounds *)

\* ticks per millisecond of the time representation
TicksPerMs == 100

\* dynamicTestParameters.maxSize of the modelled schedule (30_000 in the source)
MaxDynamicSize == 7

\* longest scenario catalog handed to the compatibility filter on its own
MaxCatalog == 4

\* number of values Math.random() can return
RandomLevels == 3

\* length of the repeating pattern of the draws of Math.random()
PatternLength == 4

\* largest array the correctness suite is run on
MaxArraySize == 17

\* how far below and above each breakpoint getSampleSize is called
BreakpointMargin == 1

\* largest array size of the lists handed to measurePerformance on its own
MaxMeasuredSize == 3

\* number of successive measurements made on one list
MaxTrials == 2

ToTicks(ms) == ms * TicksPerMs

----------------------------------------------------------------------------
(* Configuration data *)

ALGORITHMS_TO_TEST ==
    << [name |-> "Bubble Sort",        accepts |-> NoValue],
       [name |-> "Bubble Sort Smart",  accepts |-> NoValue],
       [name |-> "Insertion Sort",     accepts |-> NoValue],
       [name |-> "Selection Sort",     accepts |-> NoValue],
       [name |-> "Merge Sort",         accepts |-> NoValue],
       [name |-> "Quick Sort",         accepts |-> NoValue],
       [name |-> "Heap Sort",          accepts |-> NoValue],
       [name |-> "Shell Sort",         accepts |-> NoValue],
       [name |-> "Counting Sort",      accepts |-> "integers"],
       [name |-> "Radix Sort",         accepts |-> "integers"],
       [name |-> "Bitwise Radix Sort", accepts |-> "integers"],
       [name |-> "Timsort (Native)",   accepts |-> NoValue],
       [name |-> "Bucket Sort",        accepts |-> NoValue] >>

scenariosToTest ==
    << [name |-> "on a random array of integers", generator |-> "random",
        dataType |-> "integer"],
       [name |-> "on a random array of floats", generator |-> "random",
        dataType |-> "float"],
       [name |-> "on a random integer array with many duplicates", generator |-> "duplicates",
        dataType |-> "integer"],
       [name |-> "on a random integer array with a sparse distribution (large values)",
        generator |-> "sparse", dataType |-> "integer"],
       [name |-> "on a perfectly sorted ascending array", generator |-> "ascending",
        dataType |-> "integer"],
       [name |-> "on a perfectly sorted descending (reversed) array", generator |-> "descending",
        dataType |-> "integer"],
       [name |-> "on a perfectly sorted array of floats", generator |-> "ascending",
        dataType |-> "float"],
       [name |-> "on a nearly sorted (5% chaos) ascending array", generator |-> "nearly5",
        dataType |-> "integer"],
       [name |-> "on a nearly sorted (5% chaos) descending array", generator |-> "nearly5desc",
        dataType |-> "integer"],
       [name |-> "on a highly shuffled (40% chaos) array", generator |-> "nearly40",
        dataType |-> "integer"] >>

BenchmarkSettings ==
    [MAX_EXECUTION_TIME_MS |-> 60,
     QUADRATIC_BEHAVIOR_THRESHOLD |-> 500,
     MIN_TIME_FOR_DETECTION_MS |-> 10]

getSampleSize_swapped(size) ==
    IF size < 50 THEN 200
    ELSE IF size < 500 THEN 50
    ELSE IF size < 1000 THEN 100
    ELSE IF size < 2000 THEN 40
    ELSE IF size < 3000 THEN 30
    ELSE IF size < 6000 THEN 20
    ELSE IF size < 10000 THEN 10
    ELSE 5

getSampleSize(size) ==
    IF size < 50 THEN 200
    ELSE IF size < 500 THEN 100
    ELSE IF size < 1000 THEN 50
    ELSE IF size < 2000 THEN 40
    ELSE IF size < 3000 THEN 30
    ELSE IF size < 6000 THEN 20
    ELSE IF size < 10000 THEN 10
    ELSE 5

performanceTestConfig ==
    [staticTestSizes |-> << 100000 >>,
     dynamicTestParameters |->
        [enabled |-> TRUE, startingSize |-> 5, maxSize |-> MaxDynamicSize,
         growthFactor |-> [num |-> 11, den |-> 10]]]

----------------------------------------------------------------------------
(* Sequence helpers *)

Range(s) == {s[i] : i \in DOMAIN s}

RECURSIVE Insert(_, _)
Insert(x, s) ==
    IF s = <<>> THEN <<x>>
    ELSE IF x < Head(s) THEN <<x>> \o s
    ELSE <<Head(s)>> \o Insert(x, Tail(s))

\* Array.prototype.sort((a, b) => a - b): ascending, equal elements keep their order
RECURSIVE SortNumeric(_)
SortNumeric(s) ==
    IF s = <<>> THEN <<>>
    ELSE Insert(s[Len(s)], SortNumeric(SubSeq(s, 1, Len(s) - 1)))

\* new Set(seq) and Set.add: insertion order, the first occurrence is kept
RECURSIVE SetAddAll(_, _)
SetAddAll(acc, s) ==
    IF s = <<>> THEN acc
    ELSE SetAddAll(IF Head(s) \in Range(acc) THEN acc ELSE Append(acc, Head(s)), Tail(s))

----------------------------------------------------------------------------
(* performance-test.config.ts *)

\* current = startingSize * growthFactor^k is kept as the exact fraction num/den
RECURSIVE IncrementalSizes(_, _, _)
IncrementalSizes(num, den, params) ==
    IF num <= params.maxSize * den
    THEN <<num \div den>> \o
         IncrementalSizes(num * params.growthFactor.num, den * params.growthFactor.den, params)
    ELSE <<>>

generateIncrementalTestSizes(params) == IncrementalSizes(params.startingSize, 1, params)

combinedSizes(config) ==
    IF config.dynamicTestParameters.enabled
    THEN SetAddAll(SetAddAll(<<>>, config.staticTestSizes),
                   generateIncrementalTestSizes(config.dynamicTestParameters))
    ELSE SetAddAll(<<>>, config.staticTestSizes)

finalSizes_unsorted(config) == combinedSizes(config)

finalSizes(config) == SortNumeric(combinedSizes(config))

PERFORMANCE_TEST_SIZES(config) == finalSizes(config)

----------------------------------------------------------------------------
(* scenario-helper.ts *)

getCompatibleScenariosFor_all(algorithm, scenarios) == scenarios

getCompatibleScenariosFor(algorithm, scenarios) ==
    IF algorithm.accepts = "integers"
    THEN SelectSeq(scenarios, LAMBDA scenario : scenario.dataType = "integer")
    ELSE scenarios

----------------------------------------------------------------------------
(* test-data-generator.service.ts *)

RECURSIVE FlatMapCompatible(_, _)
FlatMapCompatible(algs, scenarios) ==
    IF algs = <<>> THEN <<>>
    ELSE getCompatibleScenariosFor(Head(algs), scenarios) \o
         FlatMapCompatible(Tail(algs), scenarios)

\* a Map keyed by scenario name: the names, one scenario kept per name
getAllUniqueScenarios(algs, scenarios) ==
    {scenario.name : scenario \in Range(FlatMapCompatible(algs, scenarios))}

GeneratedSizes_skipFirst(sz) == {sz[i] : i \in {j \in DOMAIN sz : j > 1}} \ {0}

GeneratedSizes(sz) == Range(sz) \ {0}

\* the arrays themselves are left out: testData[name][size] is testArrays.length
generateAll(algs, scenarios, sz) ==
    [name \in getAllUniqueScenarios(algs, scenarios) |->
        [size \in GeneratedSizes(sz) |-> getSampleSize(size)]]

----------------------------------------------------------------------------
(* benchmark-runner.ts *)

scenarioKey_algorithmOnly(algorithm, scenario) == algorithm.name

scenarioKey(algorithm, scenario) == algorithm.name \o "|" \o scenario.name

IsAbandoned_never(key) == FALSE

IsAbandoned(key) == key \in abandonedScenarios

\* sampleTimes.reduce((sum, time) => sum + time, 0), the sum split in halves
RECURSIVE SumRange(_, _, _)
SumRange(s, lo, hi) ==
    IF lo > hi THEN 0
    ELSE IF lo = hi THEN s[lo]
    ELSE LET mid == (lo + hi) \div 2
         IN  SumRange(s, lo, mid) + SumRange(s, mid + 1, hi)

SumSeq(s) == SumRange(s, 1, Len(s))

measurePerformance_noDivision(sampleTimes) ==
    LET totalSampleTime == SumSeq(sampleTimes)
    IN  [averageTime |-> totalSampleTime, totalSampleTime |-> totalSampleTime]

\* sampleTimes[i] is end - start of the i-th array
measurePerformance(sampleTimes) ==
    LET totalSampleTime == SumSeq(sampleTimes)
    IN  [averageTime |-> IF Len(sampleTimes) > 0
                         THEN totalSampleTime \div Len(sampleTimes) ELSE 0,
         totalSampleTime |-> totalSampleTime]

RatioAboveOne_zeroIsNaN(a, b) == IF b = 0 THEN FALSE ELSE a > b

RatioAboveOne_always(a, b) == TRUE

\* a / b > 1 for non-negative a and b, with a / 0 = Infinity (a > 0) or NaN (a = 0)
RatioAboveOne(a, b) == IF b = 0 THEN a > 0 ELSE a > b

DegradationAbove_orEqual(averageTime, size, prev, threshold) ==
    IF prev.time = 0 THEN averageTime > 0
    ELSE (averageTime * prev.size) \div (prev.time * size) >= threshold

\* (averageTime / prev.time) / (size / prev.size) > threshold, prev.size > 0, threshold finite.
\* With prev.time = 0 the time ratio is Infinity and so is the quotient.
DegradationAbove(averageTime, size, prev, threshold) ==
    IF prev.time = 0 THEN averageTime > 0
    ELSE LET n == averageTime * prev.size
             d == prev.time * size
         IN  n \div d > threshold \/ (n \div d = threshold /\ n % d > 0)

QuadraticBehavior_noMinTime(averageTime, size, key) ==
    /\ key \in DOMAIN previousResults
    /\ RatioAboveOne(size, previousResults[key].size)
    /\ RatioAboveOne(averageTime, previousResults[key].time)
    /\ DegradationAbove(averageTime, size, previousResults[key],
                        settings.QUADRATIC_BEHAVIOR_THRESHOLD)

QuadraticBehavior(averageTime, size, key) ==
    /\ key \in DOMAIN previousResults
    /\ averageTime > ToTicks(settings.MIN_TIME_FOR_DETECTION_MS)
    /\ RatioAboveOne(size, previousResults[key].size)
    /\ RatioAboveOne(averageTime, previousResults[key].time)
    /\ DegradationAbove(averageTime, size, previousResults[key],
                        settings.QUADRATIC_BEHAVIOR_THRESHOLD)

checkForBailOut_trendOnly(averageTime, size, key) ==
    IF QuadraticBehavior(averageTime, size, key)
    THEN abandonedScenarios \cup {key}
    ELSE abandonedScenarios

\* the value of abandonedScenarios after the call
checkForBailOut(averageTime, size, key) ==
    IF averageTime > ToTicks(settings.MAX_EXECUTION_TIME_MS)
    THEN abandonedScenarios \cup {key}
    ELSE IF QuadraticBehavior(averageTime, size, key)
         THEN abandonedScenarios \cup {key}
         ELSE abandonedScenarios

MapSet(map, key, value) ==
    [k \in DOMAIN map \cup {key} |-> IF k = key THEN value ELSE map[k]]

----------------------------------------------------------------------------
(* The sorting functions. An array is a sequence; At and Put keep the code's *)
(* 0-based indices. Numbers are whole multiples of 1/unit: unit is 1 for the *)
(* arrays of an integer scenario and RandomLevels for those of a float one. *)

At(a, i) == a[i + 1]

Put(a, i, v) == [a EXCEPT ![i + 1] = v]

swap(a, i, j) == [a EXCEPT ![i + 1] = a[j + 1], ![j + 1] = a[i + 1]]

\* bubble-sort.ts
RECURSIVE BubbleInner(_, _, _)
BubbleInner(a, i, j) ==
    IF j < i
    THEN IF At(a, j) > At(a, j + 1)
         THEN BubbleInner(swap(a, j, j + 1), i, j + 1)
         ELSE BubbleInner(a, i, j + 1)
    ELSE a

RECURSIVE BubbleOuter(_, _)
BubbleOuter(a, i) == IF i > 0 THEN BubbleOuter(BubbleInner(a, i, 0), i - 1) ELSE a

bubbleSort_skipsFirstPass(arr) == BubbleOuter(arr, Len(arr) - 2)

bubbleSort(arr) == BubbleOuter(arr, Len(arr) - 1)

\* bubble-sort-smart.ts: one pass of the for loop, then the while loop
RECURSIVE SmartPass(_, _, _, _, _)
SmartPass(a, newEnd, j, changed, lastSwap) ==
    IF j < newEnd
    THEN IF At(a, j) > At(a, j + 1)
         THEN SmartPass(swap(a, j, j + 1), newEnd, j + 1, TRUE, j)
         ELSE SmartPass(a, newEnd, j + 1, changed, lastSwap)
    ELSE [a |-> a, changed |-> changed, lastSwap |-> lastSwap]

RECURSIVE SmartLoop(_, _)
SmartLoop(a, newEnd) ==
    IF newEnd > 0
    THEN LET pass == SmartPass(a, newEnd, 0, FALSE, 0)
         IN  IF ~pass.changed THEN pass.a ELSE SmartLoop(pass.a, pass.lastSwap)
    ELSE a

bubbleSortSmart(arr) == SmartLoop(arr, Len(arr) - 1)

\* insertion-sort.ts: the while loop with the final newAry[j + 1] = key
RECURSIVE InsertionShift(_, _, _)
InsertionShift(a, j, k) ==
    IF j >= 0 /\ At(a, j) > k
    THEN InsertionShift(Put(a, j + 1, At(a, j)), j - 1, k)
    ELSE Put(a, j + 1, k)

RECURSIVE InsertionOuter(_, _)
InsertionOuter(a, i) ==
    IF i < Len(a) THEN InsertionOuter(InsertionShift(a, i - 1, At(a, i)), i + 1) ELSE a

insertionSort(arr) == InsertionOuter(arr, 1)

\* selection-sort.ts: the inner loop gives the index of the minimum
RECURSIVE SelectionMin(_, _, _, _)
SelectionMin(a, i, min, minIndex) ==
    IF i < Len(a)
    THEN IF At(a, i) < min
         THEN SelectionMin(a, i + 1, At(a, i), i)
         ELSE SelectionMin(a, i + 1, min, minIndex)
    ELSE minIndex

RECURSIVE SelectionOuter(_, _)
SelectionOuter(a, j) ==
    IF j < Len(a) - 1
    THEN LET minIndex == SelectionMin(a, j + 1, At(a, j), j)
         IN  SelectionOuter(IF minIndex # j
                            THEN Put(Put(a, minIndex, At(a, j)), j, At(a, minIndex))
                            ELSE a, j + 1)
    ELSE a

selectionSort(arr) == SelectionOuter(arr, 0)

\* merge-sort.ts
RECURSIVE MergeLoop(_, _, _, _, _)
MergeLoop(left, right, leftIndex, rightIndex, result) ==
    IF leftIndex < Len(left) /\ rightIndex < Len(right)
    THEN IF At(left, leftIndex) < At(right, rightIndex)
         THEN MergeLoop(left, right, leftIndex + 1, rightIndex,
                        Append(result, At(left, leftIndex)))
         ELSE MergeLoop(left, right, leftIndex, rightIndex + 1,
                        Append(result, At(right, rightIndex)))
    ELSE result \o SubSeq(left, leftIndex + 1, Len(left))
                \o SubSeq(right, rightIndex + 1, Len(right))

merge(left, right) == MergeLoop(left, right, 0, 0, <<>>)

RECURSIVE mergeSort(_)
mergeSort(arr) ==
    IF Len(arr) <= 1 THEN arr
    ELSE LET middle == Len(arr) \div 2
         IN  merge(mergeSort(SubSeq(arr, 1, middle)),
                   mergeSort(SubSeq(arr, middle + 1, Len(arr))))

\* quick-sort.ts, the version with the while loop
RECURSIVE PartitionLoop(_, _, _, _, _)
PartitionLoop(a, high, pivot, i, j) ==
    IF j < high
    THEN IF At(a, j) <= pivot
         THEN PartitionLoop(swap(a, i + 1, j), high, pivot, i + 1, j + 1)
         ELSE PartitionLoop(a, high, pivot, i, j + 1)
    ELSE [a |-> swap(a, i + 1, high), pivotIndex |-> i + 1]

partition(a, low, high) == PartitionLoop(a, high, At(a, high), low - 1, low)

MedianOfThree(a, low, high) ==
    LET mid == low + (high - low) \div 2
        a1 == IF At(a, low) > At(a, mid) THEN swap(a, low, mid) ELSE a
        a2 == IF At(a1, low) > At(a1, high) THEN swap(a1, low, high) ELSE a1
        a3 == IF At(a2, mid) > At(a2, high) THEN swap(a2, mid, high) ELSE a2
    IN  swap(a3, mid, high)

RECURSIVE robustQuickSort(_, _, _)
robustQuickSort(a, low, high) ==
    IF low < high
    THEN LET p == partition(MedianOfThree(a, low, high), low, high)
             leftSize == p.pivotIndex - 1 - low
             rightSize == high - (p.pivotIndex + 1)
         IN  IF leftSize < rightSize
             THEN robustQuickSort(robustQuickSort(p.a, low, p.pivotIndex - 1),
                                  p.pivotIndex + 1, high)
             ELSE robustQuickSort(robustQuickSort(p.a, p.pivotIndex + 1, high),
                                  low, p.pivotIndex - 1)
    ELSE a

quickSort(arr) == IF Len(arr) <= 1 THEN arr ELSE robustQuickSort(arr, 0, Len(arr) - 1)

\* heap-sort.ts
RECURSIVE heapify(_, _, _)
heapify(a, n, i) ==
    LET leftChildIndex == 2 * i + 1
        rightChildIndex == 2 * i + 2
        l1 == IF leftChildIndex < n /\ At(a, leftChildIndex) > At(a, i)
              THEN leftChildIndex ELSE i
        largest == IF rightChildIndex < n /\ At(a, rightChildIndex) > At(a, l1)
                   THEN rightChildIndex ELSE l1
    IN  IF largest # i THEN heapify(swap(a, i, largest), n, largest) ELSE a

\* the two loops of heapSort; i < n = Len(a) in both, and reading Len(a) in the
\* loop condition has the array of one iteration computed before the next begins
RECURSIVE HeapBuild(_, _)
HeapBuild(a, i) ==
    IF i >= 0 /\ i < Len(a) THEN HeapBuild(heapify(a, Len(a), i), i - 1) ELSE a

RECURSIVE HeapExtract(_, _)
HeapExtract(a, i) ==
    IF i > 0 /\ i < Len(a) THEN HeapExtract(heapify(swap(a, 0, i), i, 0), i - 1) ELSE a

heapSort(arr) == HeapExtract(HeapBuild(arr, Len(arr) \div 2 - 1), Len(arr) - 1)

\* shell-sort.ts: gap < n / 3 is 3 * gap < n
RECURSIVE ShellFirstGap(_, _)
ShellFirstGap(gap, n) == IF 3 * gap < n THEN ShellFirstGap(gap * 3 + 1, n) ELSE gap

RECURSIVE ShellShift(_, _, _, _)
ShellShift(a, j, gap, temp) ==
    IF j >= gap /\ At(a, j - gap) > temp
    THEN ShellShift(Put(a, j, At(a, j - gap)), j - gap, gap, temp)
    ELSE Put(a, j, temp)

RECURSIVE ShellPass(_, _, _)
ShellPass(a, gap, i) ==
    IF i < Len(a) THEN ShellPass(ShellShift(a, i, gap, At(a, i)), gap, i + 1) ELSE a

RECURSIVE ShellLoop(_, _)
ShellLoop(a, gap) == IF gap > 0 THEN ShellLoop(ShellPass(a, gap, gap), gap \div 3) ELSE a

shellSort(arr) == ShellLoop(arr, ShellFirstGap(1, Len(arr)))

\* the maximum found by `let max = 0; for (const num of arr) if (num > max) max = num`
RECURSIVE MaxFrom(_, _, _)
MaxFrom(a, i, max) ==
    IF i < Len(a) THEN MaxFrom(a, i + 1, IF At(a, i) > max THEN At(a, i) ELSE max) ELSE max

Occurrences(a, v) == Cardinality({i \in DOMAIN a : a[i] = v})

Repeat(v, n) == [i \in 1..n |-> v]

\* counting sort (in bubble-sort-smart.ts): step 4, the values lo..hi pushed counts[v] times
RECURSIVE CountingOutput(_, _, _)
CountingOutput(counts, lo, hi) ==
    IF lo > hi THEN <<>>
    ELSE IF lo = hi THEN Repeat(lo, counts[lo])
    ELSE LET mid == (lo + hi) \div 2
         IN  CountingOutput(counts, lo, mid) \o CountingOutput(counts, mid + 1, hi)

countingSort(arr) ==
    IF Len(arr) <= 1 THEN arr
    ELSE LET max == MaxFrom(arr, 0, 0)
             counts == [v \in 0..max |-> Occurrences(arr, v)]
         IN  CountingOutput(counts, 0, max)

\* count[] after the cumulative loop, digits being the digit of each element:
\* count[d] elements have a digit <= d
CumulativeCount(digits, radix) ==
    [d \in 0..(radix - 1) |-> Cardinality({i \in DOMAIN digits : digits[i] <= d})]

\* step 3 of a counting pass: from i = n - 1 down to 0
RECURSIVE PlaceBackwards(_, _, _, _, _)
PlaceBackwards(a, digits, i, count, output) ==
    IF i >= 0
    THEN LET digit == At(digits, i)
             position == count[digit] - 1
         IN  PlaceBackwards(a, digits, i - 1, [count EXCEPT ![digit] = count[digit] - 1],
                            Put(output, position, At(a, i)))
    ELSE output

\* radix sort (in bucket-sort.ts)
countingSortForRadix(arr, digitPlace) ==
    LET digits == [i \in DOMAIN arr |-> (arr[i] \div digitPlace) % 10]
    IN  PlaceBackwards(arr, digits, Len(arr) - 1, CumulativeCount(digits, 10),
                       Repeat(0, Len(arr)))

RECURSIVE RadixLoop(_, _, _)
RadixLoop(sortedArr, max, digitPlace) ==
    IF max \div digitPlace > 0
    THEN RadixLoop(countingSortForRadix(sortedArr, digitPlace), max, digitPlace * 10)
    ELSE sortedArr

radixSort(arr) == IF Len(arr) <= 1 THEN arr ELSE RadixLoop(arr, MaxFrom(arr, 0, 0), 1)

\* 2^k for the shift counts the loop produces
RECURSIVE Pow2(_)
Pow2(k) == IF k = 0 THEN 1 ELSE 2 * Pow2(k - 1)

\* x >> shift for 0 <= x < 2^31: the shift count is taken modulo 32
ShiftRight(x, shift) == IF shift % 32 = 31 THEN 0 ELSE x \div Pow2(shift % 32)

\* bitwise-radix-sort.ts: passes remain while (max >> shift) > 0
RECURSIVE BitwiseLoop(_, _, _)
BitwiseLoop(workArr, max, shift) ==
    IF ShiftRight(max, shift) > 0
    THEN LET digits == [i \in DOMAIN workArr |-> ShiftRight(workArr[i], shift) % 256]
         IN  BitwiseLoop(PlaceBackwards(workArr, digits, Len(workArr) - 1,
                                        CumulativeCount(digits, 256),
                                        Repeat(0, Len(workArr))),
                         max, shift + 8)
    ELSE workArr

bitwiseRadixSort(arr) == BitwiseLoop(arr, MaxFrom(arr, 0, 0), 0)

\* bucket-sort.ts: min and max of step 1
RECURSIVE BucketMinMax(_, _, _, _)
BucketMinMax(a, i, min, max) ==
    IF i < Len(a)
    THEN IF At(a, i) < min THEN BucketMinMax(a, i + 1, At(a, i), max)
         ELSE IF At(a, i) > max THEN BucketMinMax(a, i + 1, min, At(a, i))
         ELSE BucketMinMax(a, i + 1, min, max)
    ELSE [min |-> min, max |-> max]

\* step 4: the buckets lo..hi sorted and concatenated
RECURSIVE BucketOutput(_, _, _, _, _)
BucketOutput(a, min, bucketSize, lo, hi) ==
    IF lo > hi THEN <<>>
    ELSE IF lo = hi
         THEN insertionSort(SelectSeq(a, LAMBDA num : (num - min) \div bucketSize = lo))
    ELSE LET mid == (lo + hi) \div 2
         IN  BucketOutput(a, min, bucketSize, lo, mid) \o
             BucketOutput(a, min, bucketSize, mid + 1, hi)

bucketSort(arr, bucketSize) ==
    IF Len(arr) <= 1 THEN arr
    ELSE LET mm == BucketMinMax(arr, 1, At(arr, 0), At(arr, 0))
             bucketCount == (mm.max - mm.min) \div bucketSize + 1
         IN  BucketOutput(arr, mm.min, bucketSize, 0, bucketCount - 1)

\* algorithm.fn(arr) of the registry entry of that name; bucketSort's default
\* bucketSize 5 is 5 * unit in the array's unit
Fn(name, arr, unit) ==
    CASE name = "Bubble Sort" -> bubbleSort(arr)
      [] name = "Bubble Sort Smart" -> bubbleSortSmart(arr)
      [] name = "Insertion Sort" -> insertionSort(arr)
      [] name = "Selection Sort" -> selectionSort(arr)
      [] name = "Merge Sort" -> mergeSort(arr)
      [] name = "Quick Sort" -> quickSort(arr)
      [] name = "Heap Sort" -> heapSort(arr)
      [] name = "Shell Sort" -> shellSort(arr)
      [] name = "Counting Sort" -> countingSort(arr)
      [] name = "Radix Sort" -> radixSort(arr)
      [] name = "Bitwise Radix Sort" -> bitwiseRadixSort(arr)
      [] name = "Timsort (Native)" -> SortNumeric(arr)
      [] name = "Bucket Sort" -> bucketSort(arr, 5 * unit)

----------------------------------------------------------------------------
(* The array instances of a call fn(arr): what the argument instance holds *)
(* when the call returns, what the returned instance holds, and whether the *)
(* two are one instance. *)

\* `const newAry = arr`: the loops write the argument and return it
FreshResult_inPlace(arr, sorted) ==
    [argument |-> sorted, returned |-> sorted, sameInstance |-> TRUE]

\* `const newAry = [...arr]` (or an array built by the function): every write
\* goes to an instance the function created, and that instance is returned
FreshResult(arr, sorted) ==
    [argument |-> arr, returned |-> sorted, sameInstance |-> FALSE]

\* `return arr`
ReturnsArgument(arr) ==
    [argument |-> arr, returned |-> arr, sameInstance |-> TRUE]

\* mergeSort's base case returns its argument; bubbleSort, bubbleSortSmart,
\* insertionSort, selectionSort, quickSort, heapSort, shellSort and
\* bitwiseRadixSort work on a spread copy; countingSort, radixSort and
\* bucketSort return a spread copy up to length 1 and a built array above; the
\* native entry sorts a spread copy
Call(name, arr, unit) ==
    IF name = "Merge Sort" /\ Len(arr) <= 1
    THEN ReturnsArgument(arr)
    ELSE FreshResult(arr, Fn(name, arr, unit))

----------------------------------------------------------------------------
(* testArrayGenerator.ts and the generators of test-scenarios.config.ts. *)
(* Math.random() returns k / RandomLevels; the successive draws of one call *)
(* of a generator repeat a pattern of PatternLength values of k. *)

RandomStreams == [1..PatternLength -> 0..(RandomLevels - 1)]

\* the numerator of the n-th draw (n = 0, 1, ...) of a stream
Draw(stream, n) == stream[(n % PatternLength) + 1]

UnitOf(dataType) == IF dataType = "integer" THEN 1 ELSE RandomLevels

generateRandomArray(numElements, maxElementMagnitude, dataType, stream) ==
    IF dataType = "integer"
    THEN [i \in 1..numElements |-> (Draw(stream, i - 1) * maxElementMagnitude) \div RandomLevels]
    ELSE [i \in 1..numElements |-> Draw(stream, i - 1) * maxElementMagnitude]

generateSortedArray(numElements, dataType, descending, stream) ==
    [j \in 1..numElements |->
        LET i == j - 1
            baseValue == IF descending THEN numElements - 1 - i ELSE i
        IN  IF dataType = "integer" THEN baseValue
            ELSE baseValue * RandomLevels + Draw(stream, i)]

\* the swaps i, i + 1, ... of the loop; drawn is the number of draws made so far
\* (the test of the length is always true: it makes the evaluator compute the
\* array at every swap instead of at the end)
RECURSIVE NearlySwaps(_, _, _, _, _)
NearlySwaps(testArray, i, swaps, stream, drawn) ==
    IF i < swaps /\ Len(testArray) >= 0
    THEN LET index1 == (Draw(stream, drawn) * Len(testArray)) \div RandomLevels
             index2 == (Draw(stream, drawn + 1) * Len(testArray)) \div RandomLevels
         IN  NearlySwaps(swap(testArray, index1, index2), i + 1, swaps, stream, drawn + 2)
    ELSE testArray

\* `numElements * (randomness / 100)` is computed in IEEE 754 binary64: the
\* quotient is rounded to MantissaBits significant binary digits, and so is the
\* product.  A positive double is [digits, point]: the binary digits from the
\* leading 1 (most significant first) and the number of them before the point.
MantissaBits == 53

RECURSIVE NatBits(_)
NatBits(k) == IF k = 0 THEN <<>> ELSE NatBits(k \div 2) \o <<k % 2>>

RECURSIVE BitsToNat(_)
BitsToNat(bits) ==
    IF bits = <<>> THEN 0
    ELSE 2 * BitsToNat(SubSeq(bits, 1, Len(bits) - 1)) + bits[Len(bits)]

\* the zero digits after the point of rem / d, before its first 1 (0 < rem < d)
RECURSIVE LeadingZeros(_, _)
LeadingZeros(rem, d) == IF 2 * rem >= d THEN 0 ELSE 1 + LeadingZeros(2 * rem, d)

\* what is left of rem after count digits of rem / d (0 <= rem < d); the count
\* is halved, and the comparison of rem makes the evaluator compute it on entry,
\* so that the evaluation stays shallow
RECURSIVE DivisionRemainder(_, _, _)
DivisionRemainder(rem, d, count) ==
    IF count = 0 \/ rem < 0 THEN rem
    ELSE IF count = 1 THEN (2 * rem) % d
    ELSE DivisionRemainder(DivisionRemainder(rem, d, count \div 2), d, count - count \div 2)

\* the first count digits after the point of rem / d (rem < d)
RECURSIVE DivisionBits(_, _, _)
DivisionBits(rem, d, count) ==
    IF count = 0 \/ rem < 0 THEN <<>>
    ELSE IF count = 1 THEN <<(2 * rem) \div d>>
    ELSE DivisionBits(rem, d, count \div 2)
         \o DivisionBits(DivisionRemainder(rem, d, count \div 2), d, count - count \div 2)

\* digits plus one unit in the last place
RECURSIVE Increment(_)
Increment(bits) ==
    IF bits = <<>> THEN <<1>>
    ELSE IF bits[Len(bits)] = 0 THEN SubSeq(bits, 1, Len(bits) - 1) \o <<1>>
    ELSE Increment(SubSeq(bits, 1, Len(bits) - 1)) \o <<0>>

\* round to nearest, ties to even; sticky: non-zero digits follow d.digits
RoundToNearest(d, sticky) ==
    IF Len(d.digits) <= MantissaBits THEN d
    ELSE LET kept == SubSeq(d.digits, 1, MantissaBits)
             rest == sticky \/ \E i \in (MantissaBits + 2)..Len(d.digits) : d.digits[i] = 1
             up == d.digits[MantissaBits + 1] = 1 /\ (rest \/ kept[MantissaBits] = 1)
             rounded == IF up THEN Increment(kept) ELSE kept
         IN  [digits |-> rounded,
              point |-> d.point + (IF Len(rounded) > MantissaBits THEN 1 ELSE 0)]

\* the double `a / b` for integers 0 < a <= b
DoubleQuotient(a, b) ==
    IF a = b THEN [digits |-> <<1>>, point |-> 1]
    ELSE LET z == LeadingZeros(a, b)
             count == z + MantissaBits + 1
         IN  RoundToNearest([digits |-> SubSeq(DivisionBits(a, b, count), z + 1, count),
                             point |-> -z],
                            DivisionRemainder(a, b, count) # 0)

\* the digits are multiplied LimbBits at a time
LimbBits == 8

\* bits, with zeros in front up to width digits
Padded(bits, width) == [i \in 1..(width - Len(bits)) |-> 0] \o bits

\* the digits of n * digits + carry (0 <= carry, n < 2^22; the comparison makes
\* the evaluator compute the carry at every limb instead of at the end)
RECURSIVE TimesDigits(_, _, _)
TimesDigits(digits, n, carry) ==
    IF digits = <<>> \/ carry < 0 THEN NatBits(carry)
    ELSE LET width == IF Len(digits) < LimbBits THEN Len(digits) ELSE LimbBits
             limb == BitsToNat(SubSeq(digits, Len(digits) - width + 1, Len(digits)))
             t == n * limb + carry
         IN  TimesDigits(SubSeq(digits, 1, Len(digits) - width), n, t \div 2^width)
             \o Padded(NatBits(t % 2^width), width)

\* the double `n * d` for an integer n > 0
DoubleProduct(n, d) ==
    LET product == TimesDigits(d.digits, n, 0)
    IN  RoundToNearest([digits |-> product,
                        point |-> d.point + Len(product) - Len(d.digits)], FALSE)

\* Math.floor of a positive double
DoubleFloor(d) ==
    IF d.point <= 0 THEN 0
    ELSE IF d.point <= Len(d.digits) THEN BitsToNat(SubSeq(d.digits, 1, d.point))
    ELSE BitsToNat(d.digits \o [i \in 1..(d.point - Len(d.digits)) |-> 0])

DoubleIsInteger(d) == \A i \in DOMAIN d.digits : i > d.point => d.digits[i] = 0

\* `randomness / 100` for the percentages 1..100, computed once
PercentDouble == [randomness \in 1..100 |-> DoubleQuotient(randomness, 100)]

\* line 60: Math.floor(numElements * (randomness / 100)), 0 <= randomness <= 100
SwapCount(numElements, randomness) ==
    IF numElements = 0 \/ randomness = 0 THEN 0
    ELSE LET magnitude == IF numElements < 0 THEN -numElements ELSE numElements
             product == DoubleProduct(magnitude, PercentDouble[randomness])
         IN  IF numElements > 0 THEN DoubleFloor(product)
             ELSE -(DoubleFloor(product) + (IF DoubleIsInteger(product) THEN 0 ELSE 1))

generateNearlySortedArray(numElements, randomness, descending, dataType, stream) ==
    NearlySwaps(generateSortedArray(numElements, dataType, descending, stream),
                0, SwapCount(numElements, randomness), stream,
                IF dataType = "integer" THEN 0 ELSE numElements)

\* scenario.generator(size)
Generate(sc, n, stream) ==
    CASE sc.generator = "random" ->
            generateRandomArray(n, IF sc.dataType = "integer" THEN n * 2 ELSE n,
                                sc.dataType, stream)
      [] sc.generator = "duplicates" -> generateRandomArray(n, n \div 10, "integer", stream)
      [] sc.generator = "sparse" -> generateRandomArray(n, n * 100, "integer", stream)
      [] sc.generator = "ascending" -> generateSortedArray(n, sc.dataType, FALSE, stream)
      [] sc.generator = "descending" -> generateSortedArray(n, sc.dataType, TRUE, stream)
      [] sc.generator = "nearly5" -> generateNearlySortedArray(n, 5, FALSE, "integer", stream)
      [] sc.generator = "nearly5desc" -> generateNearlySortedArray(n, 5, TRUE, "integer", stream)
      [] sc.generator = "nearly40" -> generateNearlySortedArray(n, 40, FALSE, "integer", stream)

----------------------------------------------------------------------------
(* correctness.test.ts *)

CORRECTNESS_TEST_SIZES == {0, 1, 2, 17, 100}

\* the sizes of the suite that the model runs
TestedSizes == {n \in CORRECTNESS_TEST_SIZES : n <= MaxArraySize}

getExpectedResult(arr) == SortNumeric(arr)

----------------------------------------------------------------------------
(* The modelled instance: a registry with one unrestricted and one *)
(* integers-only algorithm, a catalog with one integer and one float scenario *)

Pick(seq, idx) == [i \in 1..Len(idx) |-> seq[idx[i]]]

TestedRegistry == Pick(ALGORITHMS_TO_TEST, <<8, 9>>)

TestedCatalog == Pick(scenariosToTest, <<1, 2>>)

\* the shipped schedule, and the same schedule with a size 0 configured
StaticSizeChoices == { <<100000>>, <<0, 100000>> }

\* duration of one sample: one tick, above MIN_TIME_FOR_DETECTION_MS,
\* above MAX_EXECUTION_TIME_MS
SampleDurations ==
    {1, ToTicks(BenchmarkSettings.MIN_TIME_FOR_DETECTION_MS + 1),
     ToTicks(BenchmarkSettings.MAX_EXECUTION_TIME_MS + 1)}

\* the durations of the samples of one trial: every sample takes the same time
SampleTimeChoices(n) == {[i \in 1..n |-> t] : t \in SampleDurations}

IdleRunner ==
    /\ pc = "idle"
    /\ testData = <<>>
    /\ ai = 0 /\ si = 0 /\ zi = 0
    /\ compatibleScenarios = <<>>
    /\ previousResults = <<>>
    /\ abandonedScenarios = {}
    /\ results = <<>>
    /\ invoked = {}
    /\ saved = <<>>
    /\ fault = "none"
    /\ errorsLogged = 0
    /\ runs = <<>>

NoCall == [called |-> FALSE]

NoFunctionCall ==
    /\ generation = NoCall
    /\ radixCall = NoCall
    /\ quickCall = NoCall

NoUnitCall ==
    /\ lastCheck = NoCall
    /\ filterAlg = NoCall
    /\ filterResult = NoCall
    /\ test = NoCall
    /\ sampleCall = NoCall
    /\ measurement = NoCall
    /\ NoFunctionCall

Init ==
    /\ registry = TestedRegistry
    /\ catalog = TestedCatalog
    /\ \E static \in StaticSizeChoices :
          sizes = PERFORMANCE_TEST_SIZES([performanceTestConfig EXCEPT !.staticTestSizes = static])
    /\ settings = BenchmarkSettings
    /\ IdleRunner
    /\ NoUnitCall

----------------------------------------------------------------------------
(* BenchmarkRunner.run and runTestsForAlgorithm, one action per loop step *)

algorithm == registry[ai]
scenario == compatibleScenarios[si]
size == sizes[zi]
key == scenarioKey(algorithm, scenario)

Run_rejectsEmptyRegistry ==
    /\ pc = "idle"
    /\ testData' = generateAll(registry, catalog, sizes)
    /\ ai' = 1
    /\ pc' = IF registry = <<>> THEN "thrown" ELSE "alg"
    /\ UNCHANGED unitVars
    /\ UNCHANGED runs
    /\ UNCHANGED faultVars
    /\ UNCHANGED <<registry, catalog, sizes, settings, compatibleScenarios, si, zi,
                   previousResults, abandonedScenarios, results, invoked, saved>>

\* run(), lines 48-53: generateAll, then the first algorithm
Run ==
    /\ pc = "idle"
    /\ testData' = generateAll(registry, catalog, sizes)
    /\ ai' = 1
    /\ pc' = "alg"
    /\ UNCHANGED unitVars
    /\ UNCHANGED runs
    /\ UNCHANGED faultVars
    /\ UNCHANGED <<registry, catalog, sizes, settings, compatibleScenarios, si, zi,
                   previousResults, abandonedScenarios, results, invoked, saved>>

\* for (const algorithm of ALGORITHMS_TO_TEST): runTestsForAlgorithm starts
NextAlgorithm ==
    /\ pc = "alg"
    /\ ai <= Len(registry)
    /\ compatibleScenarios' = getCompatibleScenariosFor(algorithm, catalog)
    /\ si' = 1
    /\ pc' = "scen"
    /\ UNCHANGED unitVars
    /\ UNCHANGED runs
    /\ UNCHANGED faultVars
    /\ UNCHANGED <<registry, catalog, sizes, settings, testData, ai, zi,
                   previousResults, abandonedScenarios, results, invoked, saved>>

SaveResults_truncated ==
    /\ pc = "alg"
    /\ ai > Len(registry)
    /\ saved' = SubSeq(results, 1, Len(results) - 1)
    /\ pc' = "done"
    /\ UNCHANGED unitVars
    /\ UNCHANGED runs
    /\ UNCHANGED faultVars
    /\ UNCHANGED <<registry, catalog, sizes, settings, testData, ai, compatibleScenarios,
                   si, zi, previousResults, abandonedScenarios, results, invoked>>

\* after the last algorithm: resultManager.save()
SaveResults ==
    /\ pc = "alg"
    /\ ai > Len(registry)
    /\ saved' = results
    /\ pc' = "done"
    /\ UNCHANGED unitVars
    /\ UNCHANGED runs
    /\ UNCHANGED faultVars
    /\ UNCHANGED <<registry, catalog, sizes, settings, testData, ai, compatibleScenarios,
                   si, zi, previousResults, abandonedScenarios, results, invoked>>

\* for (const scenario of compatibleScenarios): `if (!scenarioData) continue`
NextScenario ==
    /\ pc = "scen"
    /\ si <= Len(compatibleScenarios)
    /\ IF scenario.name \in DOMAIN testData
       THEN zi' = 1 /\ pc' = "size" /\ si' = si
       ELSE si' = si + 1 /\ pc' = "scen" /\ zi' = zi
    /\ UNCHANGED unitVars
    /\ UNCHANGED runs
    /\ UNCHANGED faultVars
    /\ UNCHANGED <<registry, catalog, sizes, settings, testData, ai, compatibleScenarios,
                   previousResults, abandonedScenarios, results, invoked, saved>>

\* runTestsForAlgorithm returns
EndAlgorithm ==
    /\ pc = "scen"
    /\ si > Len(compatibleScenarios)
    /\ ai' = ai + 1
    /\ pc' = "alg"
    /\ UNCHANGED unitVars
    /\ UNCHANGED runs
    /\ UNCHANGED faultVars
    /\ UNCHANGED <<registry, catalog, sizes, settings, testData, compatibleScenarios, si, zi,
                   previousResults, abandonedScenarios, results, invoked, saved>>

\* `if (size === 0) continue`, and `if (!testArrays) continue` of a pair not abandoned
SkipSize ==
    /\ pc = "size"
    /\ zi <= Len(sizes)
    /\ \/ size = 0
       \/ ~IsAbandoned(key) /\ size \notin DOMAIN testData[scenario.name]
    /\ zi' = zi + 1
    /\ UNCHANGED unitVars
    /\ UNCHANGED runs
    /\ UNCHANGED faultVars
    /\ UNCHANGED <<pc, registry, catalog, sizes, settings, testData, ai, compatibleScenarios,
                   si, previousResults, abandonedScenarios, results, invoked, saved>>

\* `if (this.abandonedScenarios.has(scenarioKey)) break`
BreakAbandoned ==
    /\ pc = "size"
    /\ zi <= Len(sizes)
    /\ size # 0
    /\ IsAbandoned(key)
    /\ si' = si + 1
    /\ pc' = "scen"
    /\ UNCHANGED unitVars
    /\ UNCHANGED runs
    /\ UNCHANGED faultVars
    /\ UNCHANGED <<registry, catalog, sizes, settings, testData, ai, compatibleScenarios,
                   zi, previousResults, abandonedScenarios, results, invoked, saved>>

Trial_unshift ==
    /\ pc = "size"
    /\ zi <= Len(sizes)
    /\ size # 0
    /\ ~IsAbandoned(key)
    /\ size \in DOMAIN testData[scenario.name]
    /\ \E sampleTimes \in SampleTimeChoices(testData[scenario.name][size]) :
          LET averageTime == measurePerformance(sampleTimes).averageTime
          IN  /\ invoked' = IF Len(sampleTimes) > 0
                            THEN invoked \cup {<<algorithm.name, scenario.name>>}
                            ELSE invoked
              /\ results' = <<[algorithmName |-> algorithm.name,
                                scenarioName |-> scenario.name,
                                arraySize |-> size,
                                executionTime |-> averageTime]>> \o results
              /\ abandonedScenarios' = checkForBailOut(averageTime, size, key)
              /\ previousResults' =
                     MapSet(previousResults, key, [size |-> size, time |-> averageTime])
    /\ zi' = zi + 1
    /\ UNCHANGED unitVars
    /\ UNCHANGED runs
    /\ UNCHANGED faultVars
    /\ UNCHANGED <<pc, registry, catalog, sizes, settings, testData, ai, compatibleScenarios,
                   si, saved>>

\* lines 99-110: measure, add the result, check for bail-out, store the result
Trial ==
    /\ pc = "size"
    /\ zi <= Len(sizes)
    /\ size # 0
    /\ ~IsAbandoned(key)
    /\ size \in DOMAIN testData[scenario.name]
    /\ \E sampleTimes \in SampleTimeChoices(testData[scenario.name][size]) :
          LET averageTime == measurePerformance(sampleTimes).averageTime
          IN  /\ invoked' = IF Len(sampleTimes) > 0
                            THEN invoked \cup {<<algorithm.name, scenario.name>>}
                            ELSE invoked
              /\ results' = Append(results,
                                [algorithmName |-> algorithm.name,
                                 scenarioName |-> scenario.name,
                                 arraySize |-> size,
                                 executionTime |-> averageTime])
              /\ abandonedScenarios' = checkForBailOut(averageTime, size, key)
              /\ previousResults' =
                     MapSet(previousResults, key, [size |-> size, time |-> averageTime])
    /\ zi' = zi + 1
    /\ UNCHANGED unitVars
    /\ UNCHANGED runs
    /\ UNCHANGED faultVars
    /\ UNCHANGED <<pc, registry, catalog, sizes, settings, testData, ai, compatibleScenarios,
                   si, saved>>

\* the sizes are exhausted
EndScenario ==
    /\ pc = "size"
    /\ zi > Len(sizes)
    /\ si' = si + 1
    /\ pc' = "scen"
    /\ UNCHANGED unitVars
    /\ UNCHANGED runs
    /\ UNCHANGED faultVars
    /\ UNCHANGED <<registry, catalog, sizes, settings, testData, ai, compatibleScenarios,
                   zi, previousResults, abandonedScenarios, results, invoked, saved>>

Next ==
    \/ Run
    \/ NextAlgorithm
    \/ SaveResults
    \/ NextScenario
    \/ EndAlgorithm
    \/ SkipSize
    \/ BreakAbandoned
    \/ Trial
    \/ EndScenario

Spec == Init /\ [][Next]_vars

----------------------------------------------------------------------------
(* The runner under other configurations, and with the failures of its *)
(* collaborators: a sort function that throws, a reports directory that cannot *)
(* be created, a results file that cannot be written. *)

\* Insertion Sort and Bubble Sort
EndToEndRegistry == Pick(ALGORITHMS_TO_TEST, <<3, 1>>)

\* 'on a perfectly sorted ascending array'
EndToEndCatalog == Pick(scenariosToTest, <<5>>)

EndToEndSizes == <<1, 2, 4>>

EndToEndSettings == [BenchmarkSettings EXCEPT !.MAX_EXECUTION_TIME_MS = 1000]

\* an empty registry, an empty schedule, a schedule of size 0 alone
ConfiguredRegistries == { <<>>, EndToEndRegistry }

ConfiguredSizes == { <<>>, <<0>>, EndToEndSizes }

InitConfig ==
    /\ registry \in ConfiguredRegistries
    /\ catalog = EndToEndCatalog
    /\ sizes \in ConfiguredSizes
    /\ settings = EndToEndSettings
    /\ IdleRunner
    /\ NoUnitCall

TrialThrows_caughtPerTrial ==
    /\ pc = "size"
    /\ zi <= Len(sizes)
    /\ size # 0
    /\ ~IsAbandoned(key)
    /\ size \in DOMAIN testData[scenario.name]
    /\ testData[scenario.name][size] > 0
    /\ invoked' = invoked \cup {<<algorithm.name, scenario.name>>}
    /\ fault' = "fn"
    /\ zi' = zi + 1
    /\ UNCHANGED unitVars
    /\ UNCHANGED runs
    /\ UNCHANGED <<pc, registry, catalog, sizes, settings, testData, ai, compatibleScenarios,
                   si, previousResults, abandonedScenarios, results, saved, errorsLogged>>

\* measurePerformance, line 127: algorithm.fn throws on one of the samples; no
\* try surrounds the call in measurePerformance, runTestsForAlgorithm or run
TrialThrows ==
    /\ pc = "size"
    /\ zi <= Len(sizes)
    /\ size # 0
    /\ ~IsAbandoned(key)
    /\ size \in DOMAIN testData[scenario.name]
    /\ testData[scenario.name][size] > 0
    /\ invoked' = invoked \cup {<<algorithm.name, scenario.name>>}
    /\ fault' = "fn"
    /\ pc' = "thrown"
    /\ UNCHANGED unitVars
    /\ UNCHANGED runs
    /\ UNCHANGED <<registry, catalog, sizes, settings, testData, ai, compatibleScenarios,
                   si, zi, previousResults, abandonedScenarios, results, saved, errorsLogged>>

\* save(), lines 44-46: the reports directory is missing and mkdirSync throws,
\* outside the try of save
SaveMkdirThrows ==
    /\ pc = "alg"
    /\ ai > Len(registry)
    /\ fault' = "mkdir"
    /\ pc' = "thrown"
    /\ UNCHANGED unitVars
    /\ UNCHANGED runs
    /\ UNCHANGED <<registry, catalog, sizes, settings, testData, ai, compatibleScenarios,
                   si, zi, previousResults, abandonedScenarios, results, invoked, saved,
                   errorsLogged>>

\* save(), lines 51-58: writeFileSync throws, the catch logs the error
SaveWriteThrows ==
    /\ pc = "alg"
    /\ ai > Len(registry)
    /\ fault' = "write"
    /\ errorsLogged' = errorsLogged + 1
    /\ pc' = "done"
    /\ UNCHANGED unitVars
    /\ UNCHANGED runs
    /\ UNCHANGED <<registry, catalog, sizes, settings, testData, ai, compatibleScenarios,
                   si, zi, previousResults, abandonedScenarios, results, invoked, saved>>

NextConfig ==
    \/ Run
    \/ NextAlgorithm
    \/ SaveResults
    \/ NextScenario
    \/ EndAlgorithm
    \/ SkipSize
    \/ BreakAbandoned
    \/ Trial
    \/ EndScenario
    \/ TrialThrows
    \/ SaveMkdirThrows
    \/ SaveWriteThrows

SpecConfig == InitConfig /\ [][NextConfig]_vars

\* an empty schedule, a schedule of size 0 alone, the first two end-to-end sizes
LiveSizes == { <<>>, <<0>>, Pick(EndToEndSizes, <<1, 2>>) }

\* registry and schedule: both registries on the short schedules, Insertion
\* Sort alone on the end-to-end schedule
LiveConfigurations ==
    (ConfiguredRegistries \X LiveSizes)
        \cup { <<Pick(EndToEndRegistry, <<1>>), EndToEndSizes>> }

InitLive ==
    /\ \E configuration \in LiveConfigurations :
          /\ registry = configuration[1]
          /\ sizes = configuration[2]
    /\ catalog = EndToEndCatalog
    /\ settings = EndToEndSettings
    /\ IdleRunner
    /\ NoUnitCall

\* the runs of these configurations in which every sort call returns and save()
\* succeeds; the event loop runs run() to its end
SpecLive == InitLive /\ [][Next]_vars /\ WF_vars(Next)

----------------------------------------------------------------------------
(* run() called again on the same BenchmarkRunner: previousResults and *)
(* abandonedScenarios are fields of the instance (lines 29-32), and the records *)
(* are held by its ResultManager; PERFORMANCE_TEST_SIZES is a module constant. *)

MaxRuns == 2

RerunRegistry == Pick(ALGORITHMS_TO_TEST, <<8>>)
RerunCatalog == Pick(scenariosToTest, <<1>>)
RerunSizes == <<0, 1, 2, 4>>

InitRerun ==
    /\ registry = RerunRegistry
    /\ catalog = RerunCatalog
    /\ sizes = RerunSizes
    /\ settings = BenchmarkSettings
    /\ IdleRunner
    /\ NoUnitCall

RunAgain_clearsState ==
    /\ pc = "done"
    /\ Len(runs) + 1 < MaxRuns
    /\ testData' = generateAll(registry, catalog, sizes)
    /\ ai' = 1
    /\ pc' = "alg"
    /\ previousResults' = <<>>
    /\ abandonedScenarios' = {}
    /\ runs' = Append(runs, [recorded |-> Len(results),
                             previous |-> previousResults,
                             abandoned |-> abandonedScenarios])
    /\ UNCHANGED unitVars
    /\ UNCHANGED faultVars
    /\ UNCHANGED <<registry, catalog, sizes, settings, compatibleScenarios, si, zi,
                   results, invoked, saved>>

\* run(), lines 48-53, entered again after an earlier call has returned: nothing
\* in run() clears previousResults, abandonedScenarios or the records
RunAgain ==
    /\ pc = "done"
    /\ Len(runs) + 1 < MaxRuns
    /\ testData' = generateAll(registry, catalog, sizes)
    /\ ai' = 1
    /\ pc' = "alg"
    /\ runs' = Append(runs, [recorded |-> Len(results),
                             previous |-> previousResults,
                             abandoned |-> abandonedScenarios])
    /\ UNCHANGED unitVars
    /\ UNCHANGED faultVars
    /\ UNCHANGED <<registry, catalog, sizes, settings, compatibleScenarios, si, zi,
                   previousResults, abandonedScenarios, results, invoked, saved>>

NextRerun ==
    \/ Run
    \/ NextAlgorithm
    \/ SaveResults
    \/ NextScenario
    \/ EndAlgorithm
    \/ SkipSize
    \/ BreakAbandoned
    \/ Trial
    \/ EndScenario
    \/ RunAgain

SpecRerun == InitRerun /\ [][NextRerun]_vars

----------------------------------------------------------------------------
(* checkForBailOut on its own: any thresholds, any history of the pair *)

PolicyKey == scenarioKey(TestedRegistry[1], TestedCatalog[1])

PolicySettings ==
    {[MAX_EXECUTION_TIME_MS |-> max,
      QUADRATIC_BEHAVIOR_THRESHOLD |-> threshold,
      MIN_TIME_FOR_DETECTION_MS |-> min] :
        max \in {BenchmarkSettings.MAX_EXECUTION_TIME_MS, 1000},
        threshold \in {1, 4, BenchmarkSettings.QUADRATIC_BEHAVIOR_THRESHOLD},
        min \in {0, BenchmarkSettings.MIN_TIME_FOR_DETECTION_MS}}

PolicySizes == {100, 200}

PolicyHistory ==
    { <<>> } \cup
    {MapSet(<<>>, PolicyKey, [size |-> sz, time |-> t]) :
        sz \in PolicySizes, t \in {0, 1, ToTicks(10)}}

PolicyTimes(st) ==
    {0, 1, ToTicks(10),
     ToTicks(st.MIN_TIME_FOR_DETECTION_MS), ToTicks(st.MIN_TIME_FOR_DETECTION_MS) + 1,
     ToTicks(st.MAX_EXECUTION_TIME_MS), ToTicks(st.MAX_EXECUTION_TIME_MS) + 1,
     ToTicks(10 * st.QUADRATIC_BEHAVIOR_THRESHOLD * 2),
     ToTicks(10 * st.QUADRATIC_BEHAVIOR_THRESHOLD * 2) + 1}

InitPolicy ==
    /\ registry = TestedRegistry
    /\ catalog = TestedCatalog
    /\ sizes = PERFORMANCE_TEST_SIZES(performanceTestConfig)
    /\ settings \in PolicySettings
    /\ pc = "idle"
    /\ testData = <<>>
    /\ ai = 0 /\ si = 0 /\ zi = 0
    /\ compatibleScenarios = <<>>
    /\ previousResults \in PolicyHistory
    /\ abandonedScenarios = {}
    /\ results = <<>>
    /\ invoked = {}
    /\ saved = <<>>
    /\ fault = "none"
    /\ errorsLogged = 0
    /\ runs = <<>>
    /\ NoUnitCall

\* one call checkForBailOut(averageTime, size, scenarioKey)
BailOutCheck ==
    /\ ~lastCheck.called
    /\ \E averageTime \in PolicyTimes(settings), sz \in PolicySizes :
          /\ abandonedScenarios' = checkForBailOut(averageTime, sz, PolicyKey)
          /\ lastCheck' = [called |-> TRUE, averageTime |-> averageTime, size |-> sz,
                           key |-> PolicyKey]
    /\ UNCHANGED <<pc, registry, catalog, sizes, settings, testData, ai, compatibleScenarios,
                   si, zi, previousResults, results, invoked, saved, filterAlg, filterResult,
                   test, sampleCall, measurement>>
    /\ UNCHANGED functionVars
    /\ UNCHANGED faultVars
    /\ UNCHANGED runs

NextPolicy == BailOutCheck

SpecPolicy == InitPolicy /\ [][NextPolicy]_vars

----------------------------------------------------------------------------
(* getCompatibleScenariosFor on its own: any algorithm, any catalog *)

FilterScenarioNames == [i \in 1..(MaxCatalog + 1) |-> "scenario " \o ToString(i)]

CatalogsOfLen(n) ==
    {[i \in 1..n |-> [name |-> FilterScenarioNames[i], generator |-> "random",
                      dataType |-> kind[i]]] :
        kind \in [1..n -> {"integer", "float"}]}

FilterCatalogs == UNION {CatalogsOfLen(n) : n \in 0..MaxCatalog}

FilterAlgorithms ==
    {[name |-> "algorithm", accepts |-> a] : a \in {"integers", "all", NoValue}}

InitFilter ==
    /\ registry = TestedRegistry
    /\ catalog \in FilterCatalogs
    /\ sizes = PERFORMANCE_TEST_SIZES(performanceTestConfig)
    /\ settings = BenchmarkSettings
    /\ IdleRunner
    /\ NoFunctionCall
    /\ lastCheck = NoCall
    /\ test = NoCall
    /\ sampleCall = NoCall
    /\ measurement = NoCall
    /\ filterAlg \in FilterAlgorithms
    /\ filterResult = NoCall

\* one call getCompatibleScenariosFor(algorithm)
ApplyFilter ==
    /\ ~filterResult.called
    /\ filterResult' = [called |-> TRUE,
                        value |-> getCompatibleScenariosFor(filterAlg, catalog)]
    /\ UNCHANGED <<runnerVars, lastCheck, filterAlg, test, sampleCall, measurement>>
    /\ UNCHANGED functionVars

NextFilter == ApplyFilter

SpecFilter == InitFilter /\ [][NextFilter]_vars

----------------------------------------------------------------------------
(* The correctness suite: every algorithm, every compatible scenario, every size *)

InitSort ==
    /\ registry = ALGORITHMS_TO_TEST
    /\ catalog = scenariosToTest
    /\ sizes = PERFORMANCE_TEST_SIZES(performanceTestConfig)
    /\ settings = BenchmarkSettings
    /\ IdleRunner
    /\ NoUnitCall

\* one `it` of the suite: arrange, act
CorrectnessTest ==
    /\ ~test.called
    /\ \E alg \in Range(registry) :
       \E sc \in Range(getCompatibleScenariosFor(alg, catalog)) :
       \E n \in TestedSizes :
       \E stream \in RandomStreams :
          LET generated == Generate(sc, n, stream)
              call == Call(alg.name, generated, UnitOf(sc.dataType))
          IN  test' = [called |-> TRUE,
                       algorithm |-> alg,
                       scenario |-> sc,
                       size |-> n,
                       originalSnapshot |-> generated,
                       expectedOutput |-> getExpectedResult(generated),
                       inputArray |-> call.argument,
                       actualOutput |-> call.returned,
                       returnedInput |-> call.sameInstance]
    /\ UNCHANGED <<runnerVars, lastCheck, filterAlg, filterResult, sampleCall, measurement>>
    /\ UNCHANGED functionVars

NextSort == CorrectnessTest

SpecSort == InitSort /\ [][NextSort]_vars

----------------------------------------------------------------------------
(* measurePerformance on its own: successive measurements of one testArrays *)
(* list, by registered functions and by one that sorts its argument in place *)

\* a registry entry `fn: (arr) => arr.sort((a, b) => a - b)`
InPlaceAlgorithm == [name |-> "In-place Sort", accepts |-> NoValue]

\* Insertion Sort, Quick Sort and the in-place entry
MeasuredAlgorithms == {ALGORITHMS_TO_TEST[3], ALGORITHMS_TO_TEST[6], InPlaceAlgorithm}

\* ascending and descending integers: the generators that draw no random number
MeasuredCatalog == Pick(scenariosToTest, <<5, 6>>)

\* the random source of a generator that does not draw from it
UnusedStream == [j \in 1..PatternLength |-> 0]

CallOf(alg, arr, unit) ==
    IF alg = InPlaceAlgorithm
    THEN FreshResult_inPlace(arr, SortNumeric(arr))
    ELSE Call(alg.name, arr, unit)

\* generateAll, lines 52-59: getSampleSize(size) arrays of scenario.generator(size)
GenerateTestArrays(sc, n) ==
    [i \in 1..getSampleSize(n) |-> Generate(sc, n, UnusedStream)]

\* `algorithm.fn(array)`: the function is handed the master array itself
Sample_noCopy(alg, array, unit) ==
    [master |-> CallOf(alg, array, unit).argument, passed |-> array,
     copyAfter |-> array]

\* `algorithm.fn([...array])`: the function is handed a new instance with the
\* elements of array, and what it writes there is dropped with the copy
Sample(alg, array, unit) ==
    LET arrCopy == array
        copyAfter == CallOf(alg, arrCopy, unit).argument
    IN  [master |-> array, passed |-> arrCopy, copyAfter |-> copyAfter]

\* the durations of n samples (n is even): all zero; all one tick; a slow first
\* sample; every second sample slower. The total is a whole multiple of n in each
MeasuredSampleTimes(n) ==
    { [i \in 1..n |-> 0],
      [i \in 1..n |-> 1],
      [i \in 1..n |-> IF i = 1 THEN 1 + n ELSE 1],
      [i \in 1..n |-> IF i % 2 = 0 THEN 3 ELSE 1] }

InitMeasure ==
    /\ registry = ALGORITHMS_TO_TEST
    /\ catalog = scenariosToTest
    /\ sizes = PERFORMANCE_TEST_SIZES(performanceTestConfig)
    /\ settings = BenchmarkSettings
    /\ IdleRunner
    /\ NoFunctionCall
    /\ lastCheck = NoCall
    /\ filterAlg = NoCall
    /\ filterResult = NoCall
    /\ test = NoCall
    /\ sampleCall = NoCall
    /\ \E generated \in
            { <<>> } \cup
            {GenerateTestArrays(sc, n) :
                sc \in Range(MeasuredCatalog), n \in 1..MaxMeasuredSize} :
          measurement = [called |-> FALSE, trials |-> 0,
                         generated |-> generated, testArrays |-> generated]

\* one call measurePerformance(algorithm, testArrays)
Measure ==
    /\ measurement.trials < MaxTrials
    /\ \E alg \in MeasuredAlgorithms,
          sampleTimes \in MeasuredSampleTimes(Len(measurement.testArrays)) :
          LET samples == [i \in DOMAIN measurement.testArrays |->
                             Sample(alg, measurement.testArrays[i], 1)]
              measured == measurePerformance(sampleTimes)
          IN  measurement' =
                  [called |-> TRUE, trials |-> measurement.trials + 1,
                   generated |-> measurement.generated,
                   testArrays |-> [i \in DOMAIN samples |-> samples[i].master],
                   algorithm |-> alg,
                   passed |-> [i \in DOMAIN samples |-> samples[i].passed],
                   sampleTimes |-> sampleTimes,
                   averageTime |-> measured.averageTime,
                   totalSampleTime |-> measured.totalSampleTime]
    /\ UNCHANGED <<runnerVars, lastCheck, filterAlg, filterResult, test, sampleCall>>
    /\ UNCHANGED functionVars

NextMeasure == Measure

SpecMeasure == InitMeasure /\ [][NextMeasure]_vars

----------------------------------------------------------------------------
(* getSampleSize on its own: two sizes at, below and above its breakpoints *)

SampleSizeBreakpoints == {50, 500, 1000, 2000, 3000, 6000, 10000}

\* the breakpoints and their neighbours, size 0 and the static size 100_000
SampleSizeInputs ==
    {0} \cup Range(performanceTestConfig.staticTestSizes) \cup
    {b + d : b \in SampleSizeBreakpoints, d \in (-BreakpointMargin)..BreakpointMargin}

InitSample ==
    /\ registry = ALGORITHMS_TO_TEST
    /\ catalog = scenariosToTest
    /\ sizes = PERFORMANCE_TEST_SIZES(performanceTestConfig)
    /\ settings = BenchmarkSettings
    /\ IdleRunner
    /\ NoFunctionCall
    /\ lastCheck = NoCall
    /\ filterAlg = NoCall
    /\ filterResult = NoCall
    /\ test = NoCall
    /\ measurement = NoCall
    /\ \E a \in SampleSizeInputs, b \in SampleSizeInputs :
          sampleCall = [called |-> FALSE, a |-> a, b |-> b]

\* BenchmarkSettings.getSampleSize(a) and BenchmarkSettings.getSampleSize(b)
CallGetSampleSize ==
    /\ ~sampleCall.called
    /\ sampleCall' = [called |-> TRUE, a |-> sampleCall.a, b |-> sampleCall.b,
                      forA |-> getSampleSize(sampleCall.a),
                      forB |-> getSampleSize(sampleCall.b)]
    /\ UNCHANGED <<runnerVars, lastCheck, filterAlg, filterResult, test, measurement>>
    /\ UNCHANGED functionVars

NextSample == CallGetSampleSize

SpecSample == InitSample /\ [][NextSample]_vars

----------------------------------------------------------------------------
(* Vocabulary of the properties *)

PairKey(algorithmName, scenarioName) == algorithmName \o "|" \o scenarioName

RecordsOfKey(k, rs) ==
    SelectSeq(rs, LAMBDA r : PairKey(r.algorithmName, r.scenarioName) = k)

RecordsOf(alg, sc, rs) ==
    SelectSeq(rs, LAMBDA r : r.algorithmName = alg.name /\ r.scenarioName = sc.name)

SizesOf(rs) == [i \in DOMAIN rs |-> rs[i].arraySize]

NonZeroSizes == SelectSeq(sizes, LAMBDA z : z # 0)

IntegersOnly(alg) == alg.accepts = "integers"

\* the pairs the run is to test
CompatiblePairs ==
    {<<alg, sc>> \in Range(registry) \X Range(catalog) :
        ~(IntegersOnly(alg) /\ sc.dataType = "float")}

HardCap(r) == r.executionTime > ToTicks(settings.MAX_EXECUTION_TIME_MS)

\* the trend condition of a measurement r after the measurement p of the same pair:
\* r.time / p.time > 1, r.size / p.size > 1 and their quotient above the threshold,
\* a division by a zero time giving Infinity
Trend(r, p) ==
    /\ r.executionTime > ToTicks(settings.MIN_TIME_FOR_DETECTION_MS)
    /\ r.arraySize > p.arraySize
    /\ IF p.executionTime = 0
       THEN r.executionTime > 0
       ELSE /\ r.executionTime > p.executionTime
            /\ (r.executionTime * p.arraySize - 1) \div settings.QUADRATIC_BEHAVIOR_THRESHOLD
                  >= p.executionTime * r.arraySize

\* the i-th record of a pair's records triggers the bail-out policy
Triggers(rs, i) == HardCap(rs[i]) \/ (i > 1 /\ Trend(rs[i], rs[i - 1]))

----------------------------------------------------------------------------
(* C1: once a pair's key is in abandonedScenarios it stays there, and no step *)
(* adds a Trial Record of that pair, whatever sizes remain. *)
C1_AbandonedPairGetsNoRecord ==
    [][\A k \in abandonedScenarios :
          /\ k \in abandonedScenarios'
          /\ RecordsOfKey(k, results') = RecordsOfKey(k, results)]_vars

C1_Witness ==
    /\ pc = "done"
    /\ \E k \in abandonedScenarios :
          /\ Len(RecordsOfKey(k, results)) < Len(NonZeroSizes)
          /\ \E i \in DOMAIN results :
                /\ PairKey(results[i].algorithmName, results[i].scenarioName) # k
                /\ \E j \in 1..(i - 1) :
                      PairKey(results[j].algorithmName, results[j].scenarioName) = k

(* C2: a call of checkForBailOut with averageTime above MAX_EXECUTION_TIME_MS *)
(* leaves the pair abandoned, with or without a previous measurement and for *)
(* every value of the thresholds. *)
C2_HardCapAbandons ==
    (lastCheck.called /\ lastCheck.averageTime > ToTicks(settings.MAX_EXECUTION_TIME_MS))
        => lastCheck.key \in abandonedScenarios

C2_Witness ==
    /\ lastCheck.called
    /\ lastCheck.averageTime > ToTicks(settings.MAX_EXECUTION_TIME_MS)
    /\ lastCheck.key \notin DOMAIN previousResults
    /\ lastCheck.key \in abandonedScenarios

C4_Example ==
    /\ lastCheck.called
    /\ lastCheck.key \in DOMAIN previousResults
    /\ previousResults[lastCheck.key] = [size |-> 100, time |-> ToTicks(10)]
    /\ lastCheck.size = 200
    /\ lastCheck.averageTime = ToTicks(10 * settings.QUADRATIC_BEHAVIOR_THRESHOLD * 2)
    /\ lastCheck.averageTime > ToTicks(settings.MIN_TIME_FOR_DETECTION_MS)

C5_SizesStrictlyIncrease ==
    \A pair \in Range(registry) \X Range(catalog) :
        LET rs == RecordsOf(pair[1], pair[2], results)
        IN  \A i \in 1..(Len(rs) - 1) : rs[i].arraySize < rs[i + 1].arraySize

C5_Witness ==
    \E pair \in Range(registry) \X Range(catalog) :
        LET rs == RecordsOf(pair[1], pair[2], results)
        IN  Len(rs) >= 3 /\ rs[1].arraySize < rs[2].arraySize /\ rs[2].arraySize < rs[3].arraySize

(* C6: the sizes recorded for a pair are a prefix of the schedule's non-zero *)
(* sizes: no record for a size means no record for any later size. *)
C6_RecordedSizesArePrefix ==
    \A pair \in Range(registry) \X Range(catalog) :
        LET rs == RecordsOf(pair[1], pair[2], results)
        IN  /\ Len(rs) <= Len(NonZeroSizes)
            /\ SizesOf(rs) = SubSeq(NonZeroSizes, 1, Len(rs))

C6_Witness ==
    /\ pc = "done"
    /\ \E pair \in Range(registry) \X Range(catalog) :
          LET rs == RecordsOf(pair[1], pair[2], results)
          IN  Len(rs) >= 2 /\ Len(rs) < Len(NonZeroSizes)

(* C7: when the run is over, a compatible pair with fewer records than there *)
(* are non-zero sizes has a last record that meets the hard cap or the trend *)
(* condition, and a pair none of whose records meets either has one record *)
(* for every non-zero size. *)
C7_OnlyBailOutEndsAPair ==
    pc = "done" =>
        \A pair \in CompatiblePairs :
            LET rs == RecordsOf(pair[1], pair[2], results)
            IN  /\ Len(rs) < Len(NonZeroSizes) => (Len(rs) >= 1 /\ Triggers(rs, Len(rs)))
                /\ (\A i \in DOMAIN rs : ~Triggers(rs, i)) => SizesOf(rs) = NonZeroSizes

C7_Witness ==
    /\ pc = "done"
    /\ \E pair \in CompatiblePairs :
          LET rs == RecordsOf(pair[1], pair[2], results)
          IN  /\ Len(rs) = 2
              /\ Len(rs) < Len(NonZeroSizes)
              /\ ~HardCap(rs[2])
              /\ Trend(rs[2], rs[1])
    /\ \E pair \in CompatiblePairs :
          LET rs == RecordsOf(pair[1], pair[2], results)
          IN  SizesOf(rs) = NonZeroSizes /\ \A i \in DOMAIN rs : ~Triggers(rs, i)

(* C8: no sort function of an integers-only algorithm is called on an array *)
(* of a float scenario, and no Trial Record exists for such a pair. *)
C8_IntegersOnlyNeverOnFloat ==
    \A alg \in Range(registry), sc \in Range(catalog) :
        (IntegersOnly(alg) /\ sc.dataType = "float") =>
            /\ <<alg.name, sc.name>> \notin invoked
            /\ RecordsOf(alg, sc, results) = <<>>

C8_Witness ==
    /\ pc = "done"
    /\ \E alg \in Range(registry), sc \in Range(catalog) :
          IntegersOnly(alg) /\ sc.dataType = "integer" /\ <<alg.name, sc.name>> \in invoked
    /\ \E alg \in Range(registry), sc \in Range(catalog) :
          ~IntegersOnly(alg) /\ sc.dataType = "float" /\ <<alg.name, sc.name>> \in invoked

\* the indices of the catalog's integer scenarios
IntegerIndices == {i \in DOMAIN catalog : catalog[i].dataType = "integer"}

\* the j-th smallest index of a set of indices
NthIndex(idx, j) == CHOOSE i \in idx : Cardinality({k \in idx : k <= i}) = j

(* C9: getCompatibleScenariosFor returns the catalog's integer scenarios, in *)
(* catalog order, for an algorithm that accepts 'integers', the whole catalog *)
(* for any other algorithm, and leaves the catalog as it was. *)
C9_FilterReturnsIntegerScenarios ==
    [][/\ catalog' = catalog
       /\ filterResult'.called =>
            IF filterAlg.accepts = "integers"
            THEN /\ Len(filterResult'.value) = Cardinality(IntegerIndices)
                 /\ \A j \in 1..Cardinality(IntegerIndices) :
                       filterResult'.value[j] = catalog[NthIndex(IntegerIndices, j)]
            ELSE filterResult'.value = catalog]_vars

C9_Witness ==
    /\ filterResult.called
    /\ filterAlg.accepts = "integers"
    /\ Len(filterResult.value) = 2
    /\ Len(catalog) = 4
    /\ catalog[1].dataType = "float"
    /\ catalog[4].dataType = "integer"

IsNonDecreasing(s) == \A i \in 1..(Len(s) - 1) : s[i] <= s[i + 1]

SameMultiset(s, t) ==
    \A v \in Range(s) \cup Range(t) :
        Occurrences(s, v) = Occurrences(t, v)

C12_ReturnsNewInstance == test.called => ~test.returnedInput

\* the returned instance is the argument exactly for Merge Sort up to length 1
C12_OnlyMergeSortBaseCaseReturnsInput ==
    test.called =>
        (test.returnedInput <=> test.algorithm.name = "Merge Sort" /\ test.size <= 1)

C12_Witness ==
    /\ test.called
    /\ test.algorithm.name = "Merge Sort"
    /\ test.size = 1
    /\ test.returnedInput

----------------------------------------------------------------------------
\* the end-to-end configuration, its run completed
EndToEndDone ==
    /\ registry = EndToEndRegistry
    /\ catalog = EndToEndCatalog
    /\ sizes = EndToEndSizes
    /\ settings = EndToEndSettings
    /\ pc = "done"

\* one record per algorithm and size, in the order of the loops
EndToEndAllRecorded ==
    /\ Len(results) = 6
    /\ \A a \in 1..2, z \in 1..3 :
          /\ results[3 * (a - 1) + z].algorithmName = EndToEndRegistry[a].name
          /\ results[3 * (a - 1) + z].scenarioName = EndToEndCatalog[1].name
          /\ results[3 * (a - 1) + z].arraySize = EndToEndSizes[z]

\* C13 as stated: with registry {Insertion Sort, Bubble Sort}, the ascending
\* integer scenario, sizes [1, 2, 4] and MAX_EXECUTION_TIME_MS = 1000, a completed
\* run has exactly 6 Trial Records, one per algorithm and size, each with
\* executionTime >= 0.
C13_EndToEndSixRecords ==
    EndToEndDone =>
        /\ EndToEndAllRecorded
        /\ \A i \in DOMAIN results : results[i].executionTime >= 0

\* C13 amended: in that configuration a completed run has at most 6 Trial
\* Records, each with executionTime >= 0, and exactly the 6 (one per algorithm
\* and size) if and only if no measurement at size 1 or 2 triggers the bail-out
\* policy; it has them whenever every average stays at or below
\* MIN_TIME_FOR_DETECTION_MS.
C13_EndToEndSixRecordsUnlessAbandoned ==
    EndToEndDone =>
        /\ \A i \in DOMAIN results : results[i].executionTime >= 0
        /\ Len(results) <= 6
        /\ EndToEndAllRecorded <=>
              \A alg \in Range(registry) :
                 LET rs == RecordsOf(alg, catalog[1], results)
                 IN  \A i \in DOMAIN rs : rs[i].arraySize < 4 => ~Triggers(rs, i)
        /\ (\A i \in DOMAIN results :
               results[i].executionTime <= ToTicks(settings.MIN_TIME_FOR_DETECTION_MS))
              => EndToEndAllRecorded

\* a completed end-to-end run with its 6 records, one of them above the noise floor
C13_Witness ==
    /\ EndToEndDone
    /\ EndToEndAllRecorded
    /\ \E i \in DOMAIN results :
          results[i].executionTime > ToTicks(settings.MIN_TIME_FOR_DETECTION_MS)

----------------------------------------------------------------------------
\* C14: getSampleSize is non-increasing (a <= b gives getSampleSize(a) >=
\* getSampleSize(b)) and positive for every size: 200 below size 50, 5 from
\* size 10000 on, and between 5 and 200 elsewhere.
C14_SampleSizeNonIncreasing ==
    sampleCall.called =>
        /\ sampleCall.a <= sampleCall.b => sampleCall.forA >= sampleCall.forB
        /\ sampleCall.forA > 0
        /\ sampleCall.forA >= 5 /\ sampleCall.forA <= 200
        /\ sampleCall.a < 50 => sampleCall.forA = 200
        /\ sampleCall.a >= 10000 => sampleCall.forA = 5

\* the counts of two sizes on either side of a breakpoint differ
C14_Witness ==
    /\ sampleCall.called
    /\ sampleCall.a = 499
    /\ sampleCall.b = 500
    /\ sampleCall.forA > sampleCall.forB

----------------------------------------------------------------------------
C15_WitnessNoSample ==
    /\ measurement.called
    /\ measurement.sampleTimes = <<>>
    /\ measurement.averageTime = 0

\* C16: after any sequence of measurements of a list, by a function that sorts
\* its argument in place as well, every master array holds the elements it was
\* generated with, and each function was handed exactly those elements.
C16_MasterArraysUnchanged ==
    /\ measurement.testArrays = measurement.generated
    /\ measurement.called => measurement.passed = measurement.generated

\* the in-place function has measured a list of arrays that are not sorted,
\* after another measurement of the same list
C16_Witness ==
    /\ measurement.called
    /\ measurement.trials = 2
    /\ measurement.algorithm = InPlaceAlgorithm
    /\ measurement.generated # <<>>
    /\ ~IsNonDecreasing(measurement.generated[1])
    /\ measurement.testArrays = measurement.generated

----------------------------------------------------------------------------
\* the lists of generated arrays that run() holds: one per scenario name and size
HeldLists ==
    {h \in (DOMAIN testData) \X Range(sizes) : h[2] \in DOMAIN testData[h[1]]}

Running == pc \in {"alg", "scen", "size"}

\* C17 as stated: at every point of a run the only generated arrays held are
\* those of the (scenario, size) trial being measured.
C17_OnlyCurrentTrialHeld ==
    Running =>
        HeldLists \subseteq
            (IF pc = "size" /\ zi <= Len(sizes) THEN {<<scenario.name, size>>} ELSE {})

\* C17 amended: from generateAll to the end of the run, run() holds the lists of
\* every scenario compatible with some registered algorithm at every non-zero
\* size of the schedule, each of getSampleSize(size) arrays, whatever trial is
\* being measured and however many have been: the held data is the whole
\* pre-generated set and does not change with the number of trials.
C17_AllGeneratedListsHeldThroughout ==
    Running =>
        /\ HeldLists = {<<p[2].name, z>> : p \in CompatiblePairs, z \in Range(NonZeroSizes)}
        /\ \A h \in HeldLists : testData[h[1]][h[2]] = getSampleSize(h[2])

\* a trial at size 4 is about to be measured, after records at sizes 1 and 2,
\* and the lists of sizes 1 and 2 are still held
C17_Witness ==
    /\ pc = "size"
    /\ zi = 3
    /\ sizes = EndToEndSizes
    /\ Len(results) >= 2
    /\ {<<EndToEndCatalog[1].name, 1>>, <<EndToEndCatalog[1].name, 2>>} \subseteq HeldLists

----------------------------------------------------------------------------
\* C18: when a sort function throws during a measurement, run() is left at once
\* with the error: the step records nothing, logs nothing and saves nothing, and
\* no step of the run follows it, so no later trial runs and save() is not called.
C18_ThrowAbortsTheRun ==
    [][/\ fault = "none" /\ fault' = "fn" =>
            /\ pc' = "thrown"
            /\ results' = results
            /\ previousResults' = previousResults
            /\ errorsLogged' = errorsLogged
            /\ saved' = <<>>
       /\ fault # "fn"]_vars

\* the function threw after a record was made, with sizes and an algorithm left
C18_Witness ==
    /\ pc = "thrown"
    /\ fault = "fn"
    /\ Len(results) >= 1
    /\ zi < Len(sizes)
    /\ ai < Len(registry)
    /\ saved = <<>>

\* C19 as stated: whatever fails inside save(), the creation of the reports
\* directory included, the failure is logged, the Trial Records are unchanged
\* and run() completes without throwing.
C19_SaveFailureIsLoggedAndRunCompletes ==
    [][fault = "none" /\ fault' \in {"mkdir", "write"} =>
            /\ errorsLogged' = errorsLogged + 1
            /\ results' = results
            /\ pc' = "done"]_vars

\* a failure of writeFileSync is logged and run() completes; a failure of
\* mkdirSync is not logged and leaves run() with the error
C19_OnlyWriteFailureIsLogged ==
    [][fault = "none" /\ fault' \in {"mkdir", "write"} =>
            /\ results' = results
            /\ saved' = saved
            /\ fault' = "write" => errorsLogged' = errorsLogged + 1 /\ pc' = "done"
            /\ fault' = "mkdir" => errorsLogged' = errorsLogged /\ pc' = "thrown"]_vars

\* the reports directory could not be created after a run that made records
C19_Witness ==
    /\ fault = "mkdir"
    /\ pc = "thrown"
    /\ errorsLogged = 0
    /\ Len(results) = 6

\* an empty registry, or a schedule with no size other than 0
EmptyConfiguration == registry = <<>> \/ NonZeroSizes = <<>>

C20_WitnessEmptyRegistry ==
    /\ registry = <<>>
    /\ sizes = EndToEndSizes
    /\ pc = "done"
    /\ fault = "none"

----------------------------------------------------------------------------
(* testArrayGenerator.ts: one call of a generator on its own *)

MaxNegativeSize == 2
MaxSmallSize == 4

GeneratorSizes == (-MaxNegativeSize)..MaxSmallSize

\* <<numElements, randomness>> of the calls of generateNearlySortedArray: the
\* small sizes with no, few, many and all elements to swap, and sizes where
\* the percentages of the catalog and others give a whole number of swaps
NearlyCases ==
    (GeneratorSizes \X {0, 5, 40, 100}) \cup {<<20, 5>>, <<50, 40>>, <<50, 58>>, <<90, 70>>}

\* Array.from({ length }, ...): ToLength takes every length below 0 to 0
ToLength(length) == IF length <= 0 THEN 0 ELSE length

\* no statement of the three generators throws, and Array.from accepts every
\* length up to 2^32 - 1 after ToLength
GeneratorRaises(numElements) == FALSE

InitGenerate ==
    /\ registry = ALGORITHMS_TO_TEST
    /\ catalog = scenariosToTest
    /\ sizes = PERFORMANCE_TEST_SIZES(performanceTestConfig)
    /\ settings = BenchmarkSettings
    /\ IdleRunner
    /\ NoUnitCall

\* generateRandomArray(numElements, maxElementMagnitude, dataType)
CallGenerateRandomArray ==
    /\ ~generation.called
    /\ \E n \in GeneratorSizes, dataType \in {"integer", "float"}, factor \in {1, 2},
          stream \in RandomStreams :
          generation' = [called |-> TRUE, generator |-> "random", numElements |-> n,
                         dataType |-> dataType, length |-> ToLength(n),
                         raised |-> GeneratorRaises(n),
                         output |-> generateRandomArray(n, n * factor, dataType, stream)]
    /\ UNCHANGED <<runnerVars, lastCheck, filterAlg, filterResult, test, sampleCall,
                   measurement, radixCall, quickCall>>

\* generateSortedArray(numElements, dataType, descending)
CallGenerateSortedArray ==
    /\ ~generation.called
    /\ \E n \in GeneratorSizes, dataType \in {"integer", "float"}, descending \in BOOLEAN,
          stream \in RandomStreams :
          generation' = [called |-> TRUE, generator |-> "sorted", numElements |-> n,
                         dataType |-> dataType, length |-> ToLength(n),
                         raised |-> GeneratorRaises(n),
                         output |-> generateSortedArray(n, dataType, descending, stream)]
    /\ UNCHANGED <<runnerVars, lastCheck, filterAlg, filterResult, test, sampleCall,
                   measurement, radixCall, quickCall>>

\* generateNearlySortedArray(numElements, randomness, descending, dataType)
CallGenerateNearlySortedArray ==
    /\ ~generation.called
    /\ \E case \in NearlyCases, descending \in BOOLEAN, stream \in RandomStreams :
          LET n == case[1]
              randomness == case[2]
              dataType == IF n = MaxSmallSize /\ randomness = 40 /\ descending
                          THEN "float" ELSE "integer"
          IN  generation' =
                 [called |-> TRUE, generator |-> "nearly", numElements |-> n,
                  dataType |-> dataType, length |-> ToLength(n),
                  raised |-> GeneratorRaises(n),
                  randomness |-> randomness,
                  swaps |-> SwapCount(n, randomness),
                  sortedArray |-> generateSortedArray(n, dataType, descending, stream),
                  output |-> generateNearlySortedArray(n, randomness, descending,
                                                       dataType, stream)]
    /\ UNCHANGED <<runnerVars, lastCheck, filterAlg, filterResult, test, sampleCall,
                   measurement, radixCall, quickCall>>

NextGenerate ==
    \/ CallGenerateRandomArray
    \/ CallGenerateSortedArray
    \/ CallGenerateNearlySortedArray

SpecGenerate == InitGenerate /\ [][NextGenerate]_vars

----------------------------------------------------------------------------
\* C21 as stated: a generator called with a negative size raises an error; called
\* with a size >= 0 it raises nothing and returns exactly `size` elements.
C21_NegativeSizeRaises ==
    generation.called =>
        IF generation.numElements < 0
        THEN generation.raised
        ELSE ~generation.raised /\ Len(generation.output) = generation.numElements

\* what the generators do: no size raises, a negative size gives the empty array
C21_NoSizeRaises ==
    generation.called =>
        /\ ~generation.raised
        /\ Len(generation.output) = generation.length
        /\ generation.numElements < 0 => generation.output = <<>>

\* each of the three generators has returned [] for a negative size
C21_Witness ==
    /\ generation.called
    /\ generation.numElements < 0
    /\ generation.generator = "nearly"
    /\ generation.randomness = 40
    /\ ~generation.raised
    /\ generation.output = <<>>

FloorOfPercentage(n, chaos) == (n * chaos) \div 100

DifferingPositions(a, b) == {i \in DOMAIN a : a[i] # b[i]}

NearlySortedIntegers ==
    /\ generation.called
    /\ generation.generator = "nearly"
    /\ generation.dataType = "integer"
    /\ generation.numElements >= 0

\* C23 as stated: generateNearlySortedArray(size, chaos, descending, 'integer')
\* performs exactly floor(size * chaos / 100) swaps on the sorted array, so the
\* result is a permutation of 0..size-1 that differs from the sorted array in at
\* most 2 * floor(size * chaos / 100) positions.
C23_ExactlyFloorSwaps ==
    NearlySortedIntegers =>
        LET exact == FloorOfPercentage(generation.numElements, generation.randomness)
        IN  /\ generation.swaps = exact
            /\ SameMultiset(generation.output, generation.sortedArray)
            /\ Range(generation.output) = 0..(generation.numElements - 1)
            /\ Cardinality(DifferingPositions(generation.output, generation.sortedArray))
                  <= 2 * exact

\* what the generator does: at most floor(size * chaos / 100) swaps, exactly
\* that many for the percentages of the catalog, and always a permutation
C23_AtMostFloorSwaps ==
    NearlySortedIntegers =>
        LET exact == FloorOfPercentage(generation.numElements, generation.randomness)
        IN  /\ generation.swaps <= exact
            /\ generation.swaps >= exact - 1
            /\ generation.randomness \in {0, 5, 40, 100} => generation.swaps = exact
            /\ SameMultiset(generation.output, generation.sortedArray)
            /\ Range(generation.output) = 0..(generation.numElements - 1)
            /\ Cardinality(DifferingPositions(generation.output, generation.sortedArray))
                  <= 2 * generation.swaps

\* 50 elements at 58 percent: 28 swaps were made where floor(50 * 58 / 100) = 29
C23_Witness ==
    /\ NearlySortedIntegers
    /\ generation.numElements = 50
    /\ generation.randomness = 58
    /\ generation.swaps = 28
    /\ generation.output # generation.sortedArray

----------------------------------------------------------------------------
\* position of the entry called name in a registry or a catalog of unique names
PositionOf(entries, name) == CHOOSE i \in DOMAIN entries : entries[i].name = name

PairPosition(r) ==
    <<PositionOf(registry, r.algorithmName), PositionOf(catalog, r.scenarioName)>>

PairBefore(p, q) == p[1] < q[1] \/ (p[1] = q[1] /\ p[2] <= q[2])

\* C22: in the result sequence a record never comes before a record of a pair
\* that is earlier in (registry position, catalog position) order; hence the
\* records of one pair are contiguous and the pairs appear in that order, and
\* every trial's record goes to the end of the sequence when the trial runs.
C22_PairsContiguousInIterationOrder ==
    \A i \in DOMAIN results : \A j \in DOMAIN results :
        i < j => PairBefore(PairPosition(results[i]), PairPosition(results[j]))

\* a finished run with three pairs recorded, two of them with several records
C22_Witness ==
    /\ pc = "done"
    /\ Cardinality({PairPosition(results[i]) : i \in DOMAIN results}) = 3
    /\ \E i \in DOMAIN results :
          /\ i + 3 <= Len(results)
          /\ PairPosition(results[i]) = PairPosition(results[i + 1])
          /\ PairPosition(results[i + 1]) # PairPosition(results[i + 2])
          /\ PairPosition(results[i + 2]) = PairPosition(results[i + 3])

----------------------------------------------------------------------------
IsPrefix(a, b) == Len(a) <= Len(b) /\ SubSeq(b, 1, Len(a)) = a

\* C24: records are only appended, one at a time, to the end of the sequence;
\* save() is called only after the last algorithm, with the whole sequence in
\* order; after save() nothing is added and save() is not called again; and a
\* run in which every sort call returns reaches that point.
C24_SavedOnceAfterLastTrial ==
    /\ [][/\ IsPrefix(results, results')
          /\ Len(results') <= Len(results) + 1
          /\ saved' # saved \/ pc' = "done" =>
                /\ pc = "alg" /\ ai > Len(registry)
                /\ results' = results
                /\ saved' = results
          /\ pc # "done"]_vars
    /\ <>(pc = "done" /\ saved = results)

\* the run has ended and the records of all three pairs are persisted
C24_Witness ==
    /\ pc = "done"
    /\ saved = results
    /\ Len(saved) >= 4
    /\ ai = Len(registry) + 1
    /\ saved[Len(saved)].algorithmName = registry[Len(registry)].name

----------------------------------------------------------------------------
(* bitwise-radix-sort.ts: one call of bitwiseRadixSort, one action per pass *)

MaxRadixLength == 2
MaxPasses == 6

MaxInt32 == 2147483647

\* values on both sides of the byte boundaries, up to the largest 32-bit integer
RadixValues == {0, 1, 255, 256, 65535, 65536, Pow2(24) - 1, Pow2(24), MaxInt32}

RadixInputs == UNION {[1..n -> RadixValues] : n \in 0..MaxRadixLength}

\* one iteration of the loop of line 27: steps 1, 2 and 3 on the byte at shift
BitwisePass(workArr, shift) ==
    LET digits == [i \in DOMAIN workArr |-> ShiftRight(workArr[i], shift) % 256]
    IN  PlaceBackwards(workArr, digits, Len(workArr) - 1,
                       CumulativeCount(digits, 256), Repeat(0, Len(workArr)))

InitRadix ==
    /\ registry = ALGORITHMS_TO_TEST
    /\ catalog = scenariosToTest
    /\ sizes = PERFORMANCE_TEST_SIZES(performanceTestConfig)
    /\ settings = BenchmarkSettings
    /\ IdleRunner
    /\ lastCheck = NoCall
    /\ filterAlg = NoCall
    /\ filterResult = NoCall
    /\ test = NoCall
    /\ sampleCall = NoCall
    /\ measurement = NoCall
    /\ generation = NoCall
    /\ quickCall = NoCall
    /\ \E arr \in RadixInputs : radixCall = [called |-> FALSE, arr |-> arr]

\* lines 14-23 and `let shift = 0`
BitwiseStart ==
    /\ ~radixCall.called
    /\ radixCall' = [called |-> TRUE, arr |-> radixCall.arr, workArr |-> radixCall.arr,
                     max |-> MaxFrom(radixCall.arr, 0, 0), shift |-> 0, passes |-> 0,
                     returned |-> FALSE]
    /\ UNCHANGED <<runnerVars, lastCheck, filterAlg, filterResult, test, sampleCall,
                   measurement, generation, quickCall>>

\* lines 27-59: the condition holds, one pass, shift += 8
BitwiseIterate ==
    /\ radixCall.called
    /\ ~radixCall.returned
    /\ ShiftRight(radixCall.max, radixCall.shift) > 0
    /\ radixCall.passes < MaxPasses
    /\ radixCall' = [radixCall EXCEPT !.workArr = BitwisePass(@, radixCall.shift),
                                      !.shift = @ + 8,
                                      !.passes = @ + 1]
    /\ UNCHANGED <<runnerVars, lastCheck, filterAlg, filterResult, test, sampleCall,
                   measurement, generation, quickCall>>

\* line 27, the condition fails; line 61: return workArr
BitwiseReturn ==
    /\ radixCall.called
    /\ ~radixCall.returned
    /\ ~(ShiftRight(radixCall.max, radixCall.shift) > 0)
    /\ radixCall' = [radixCall EXCEPT !.returned = TRUE]
    /\ UNCHANGED <<runnerVars, lastCheck, filterAlg, filterResult, test, sampleCall,
                   measurement, generation, quickCall>>

NextRadix ==
    \/ BitwiseStart
    \/ BitwiseIterate
    \/ BitwiseReturn

SpecRadix == InitRadix /\ [][NextRadix]_vars

\* C25 as stated: for every array of integers in 0 .. 2^31-1 the loop makes at
\* most 4 passes, then the call returns the elements in ascending order.
C25_AtMostFourPassesThenSorted ==
    radixCall.called =>
        /\ radixCall.passes <= 4
        /\ radixCall.passes = 4 =>
              ~(ShiftRight(radixCall.max, radixCall.shift) > 0)
        /\ radixCall.returned => radixCall.workArr = SortNumeric(radixCall.arr)

\* what the function does: below 2^24 it returns the sorted array after at most
\* 3 passes; from 2^24 on the loop condition holds at every shift, since the
\* shift count 32 is taken as 0, and the call does not return
C25_ReturnsOnlyBelowTwoPow24 ==
    radixCall.called =>
        IF radixCall.max < Pow2(24)
        THEN /\ radixCall.passes <= 3
             /\ radixCall.returned => radixCall.workArr = SortNumeric(radixCall.arr)
        ELSE /\ ~radixCall.returned
             /\ ShiftRight(radixCall.max, radixCall.shift) > 0

\* the call on [16777216] is in its loop after more than four passes
C25_Witness ==
    /\ radixCall.called
    /\ radixCall.arr = <<Pow2(24)>>
    /\ radixCall.passes = 5
    /\ radixCall.shift = 40
    /\ ~radixCall.returned

----------------------------------------------------------------------------
(* quick-sort.ts: one call of quickSort, with its recursive calls recorded *)

MaxQuickLength == 5

QuickInputs == UNION {[1..n -> 0..(MaxQuickLength - 1)] : n \in 0..MaxQuickLength}

RecurseLeft_larger(leftSize, rightSize) == leftSize > rightSize

\* line 143: if (leftSize < rightSize)
RecurseLeft(leftSize, rightSize) == leftSize < rightSize

MaxOf(x, y) == IF x > y THEN x ELSE y

\* robustQuickSort(a, low, high) with what it does recorded: depth is the
\* deepest nesting of activations reached, this one counted as 1; smaller says
\* that every recursive call, here and below, was handed the partition with no
\* more elements than the other one and no more than half of the segment
\* low..high that the loop held when it made the call
RECURSIVE RobustQuickSortCalls(_, _, _)
RobustQuickSortCalls(a, low, high) ==
    IF low < high
    THEN LET p == partition(MedianOfThree(a, low, high), low, high)
             leftSize == p.pivotIndex - 1 - low
             rightSize == high - (p.pivotIndex + 1)
             left == RecurseLeft(leftSize, rightSize)
             callLow == IF left THEN low ELSE p.pivotIndex + 1
             callHigh == IF left THEN p.pivotIndex - 1 ELSE high
             loopLow == IF left THEN p.pivotIndex + 1 ELSE low
             loopHigh == IF left THEN high ELSE p.pivotIndex - 1
             call == RobustQuickSortCalls(p.a, callLow, callHigh)
             rest == RobustQuickSortCalls(call.a, loopLow, loopHigh)
         IN  [a |-> rest.a,
              depth |-> MaxOf(1 + call.depth, rest.depth),
              calls |-> 1 + call.calls + rest.calls,
              smaller |-> /\ call.smaller
                          /\ rest.smaller
                          /\ callHigh - callLow + 1 <= loopHigh - loopLow + 1
                          /\ 2 * (callHigh - callLow + 1) <= high - low + 1]
    ELSE [a |-> a, depth |-> 1, calls |-> 0, smaller |-> TRUE]

\* quickSort, lines 160-168, with the record of robustQuickSort
QuickSortCalls(arr) ==
    IF Len(arr) <= 1 THEN [a |-> arr, depth |-> 0, calls |-> 0, smaller |-> TRUE]
    ELSE RobustQuickSortCalls(arr, 0, Len(arr) - 1)

RECURSIVE FloorLog2(_)
FloorLog2(n) == IF n <= 1 THEN 0 ELSE 1 + FloorLog2(n \div 2)

InitQuick ==
    /\ registry = ALGORITHMS_TO_TEST
    /\ catalog = scenariosToTest
    /\ sizes = PERFORMANCE_TEST_SIZES(performanceTestConfig)
    /\ settings = BenchmarkSettings
    /\ IdleRunner
    /\ lastCheck = NoCall
    /\ filterAlg = NoCall
    /\ filterResult = NoCall
    /\ test = NoCall
    /\ sampleCall = NoCall
    /\ measurement = NoCall
    /\ generation = NoCall
    /\ radixCall = NoCall
    /\ \E arr \in QuickInputs : quickCall = [called |-> FALSE, arr |-> arr]

\* quickSort(arr)
CallQuickSort ==
    /\ ~quickCall.called
    /\ LET trace == QuickSortCalls(quickCall.arr)
       IN  quickCall' = [called |-> TRUE, arr |-> quickCall.arr, output |-> trace.a,
                         depth |-> trace.depth, calls |-> trace.calls,
                         smaller |-> trace.smaller]
    /\ UNCHANGED <<runnerVars, lastCheck, filterAlg, filterResult, test, sampleCall,
                   measurement, generation, radixCall>>

NextQuick == CallQuickSort

SpecQuick == InitQuick /\ [][NextQuick]_vars

\* C26: every recursive call of robustQuickSort is made on the partition that is
\* not the larger one, with at most half the elements of the segment the loop
\* holds at that moment, and for an array of n >= 1 elements the nesting of
\* activations never exceeds floor(log2(n)) + 1, whatever the order of the input.
C26_RecursionOnSmallerPartition ==
    quickCall.called =>
        /\ quickCall.smaller
        /\ Len(quickCall.arr) >= 1 => quickCall.depth <= FloorLog2(Len(quickCall.arr)) + 1
        /\ quickCall.output = quickSort(quickCall.arr)
        /\ quickCall.output = SortNumeric(quickCall.arr)

\* a call on five elements in which the nesting reached the bound of 3
C26_Witness ==
    /\ quickCall.called
    /\ Len(quickCall.arr) = 5
    /\ quickCall.depth = 3
    /\ quickCall.calls >= 3
    /\ quickCall.arr # quickCall.output

----------------------------------------------------------------------------
\* number of records the ResultManager held when the current run() started
RunStart == IF runs = <<>> THEN 0 ELSE runs[Len(runs)].recorded

RecordsOfRun == SubSeq(results, RunStart + 1, Len(results))

\* the trial about to run is the first of its pair in the current run
FirstTrialOfRun ==
    /\ pc = "size"
    /\ zi <= Len(sizes)
    /\ RecordsOfKey(key, RecordsOfRun) = <<>>

\* C27: the first trial of a pair in a run abandons the pair only when its
\* average time exceeds MAX_EXECUTION_TIME_MS, also in a later run() of the same
\* instance, where the pair still has the measurement of the earlier run stored.
C27_FirstTrialAbandonsOnlyOverCap ==
    [][FirstTrialOfRun /\ Len(results') > Len(results)
         /\ key \in abandonedScenarios' /\ key \notin abandonedScenarios =>
            results'[Len(results')].executionTime > ToTicks(settings.MAX_EXECUTION_TIME_MS)]_vars

\* in a later run the first trial of a pair, with the measurement of the earlier
\* run stored at a shorter time, took more than MIN_TIME_FOR_DETECTION_MS, and
\* more than QUADRATIC_BEHAVIOR_THRESHOLD times the stored time, and the pair
\* was kept
C27_Witness ==
    /\ runs # <<>>
    /\ Len(RecordsOfRun) = 1
    /\ LET r == RecordsOfRun[1]
           k == PairKey(r.algorithmName, r.scenarioName)
       IN  /\ k \in DOMAIN runs[Len(runs)].previous
           /\ runs[Len(runs)].previous[k].time = 1
           /\ r.executionTime > ToTicks(settings.MIN_TIME_FOR_DETECTION_MS)
           /\ r.executionTime > settings.QUADRATIC_BEHAVIOR_THRESHOLD
           /\ r.executionTime <= ToTicks(settings.MAX_EXECUTION_TIME_MS)
           /\ k \notin abandonedScenarios

\* C28: a later call of run() starts with the abandoned set and the previous
\* measurements the earlier call ended with, and adds no record for a pair
\* that was abandoned when it started.
C28_BailOutStateSurvivesRun ==
    [][/\ pc = "done" /\ pc' # "done" =>
            /\ previousResults' = previousResults
            /\ abandonedScenarios' = abandonedScenarios
       /\ runs # <<>> /\ Len(results') > Len(results) =>
            LET r == results'[Len(results')]
            IN  PairKey(r.algorithmName, r.scenarioName) \notin runs[Len(runs)].abandoned]_vars

\* a later run has ended without a record: its pair was abandoned in the
\* earlier run, whose measurement is still stored
C28_Witness ==
    /\ runs # <<>>
    /\ pc = "done"
    /\ runs[Len(runs)].abandoned # {}
    /\ runs[Len(runs)].previous # <<>>
    /\ previousResults = runs[Len(runs)].previous
    /\ RecordsOfRun = <<>>
    /\ results # <<>>

----------------------------------------------------------------------------
\* the bail-out state of the pair with key k: its flag and its previous measurement
ProgressOf(k, abandoned, previous) ==
    [abandoned |-> k \in abandoned,
     previous |-> IF k \in DOMAIN previous THEN <<previous[k]>> ELSE <<>>]

PairKeys == {PairKey(alg.name, sc.name) : alg \in Range(registry), sc \in Range(catalog)}

\* C29: with unique algorithm and scenario names, a step changes the abandoned
\* flag or the previous measurement of a pair only if it is a step of the size
\* loop of that very pair; and a pair is abandoned exactly when the last of its
\* own records meets the time cap or, with the record before it, the trend rule.
C29_PairIsolation ==
    /\ [][\A k \in PairKeys :
            ProgressOf(k, abandonedScenarios', previousResults')
                    # ProgressOf(k, abandonedScenarios, previousResults) =>
                /\ pc = "size"
                /\ zi <= Len(sizes)
                /\ k = PairKey(algorithm.name, scenario.name)]_vars
    /\ [](/\ abandonedScenarios \subseteq PairKeys
          /\ \A k \in PairKeys :
                LET rs == RecordsOfKey(k, results)
                IN  k \in abandonedScenarios <=> (rs # <<>> /\ Triggers(rs, Len(rs))))

\* the run is over; one pair was abandoned while the other pair of the same
\* algorithm and the pair of the other algorithm on the same scenario went
\* through every size
C29_Witness ==
    /\ pc = "done"
    /\ \E a1 \in Range(registry), a2 \in Range(registry) :
       \E s1 \in Range(catalog), s2 \in Range(catalog) :
          /\ a1 # a2 /\ s1 # s2
          /\ PairKey(a1.name, s1.name) \in abandonedScenarios
          /\ PairKey(a1.name, s2.name) \notin abandonedScenarios
          /\ PairKey(a2.name, s1.name) \notin abandonedScenarios
          /\ SizesOf(RecordsOf(a1, s2, results)) = NonZeroSizes
          /\ SizesOf(RecordsOf(a2, s1, results)) = NonZeroSizes

----------------------------------------------------------------------------
\* a call of checkForBailOut for a pair whose previous measurement is a time of
\* exactly 0 at a smaller size, with a time above MIN_TIME_FOR_DETECTION_MS and
\* not above MAX_EXECUTION_TIME_MS
ZeroPreviousTime ==
    /\ lastCheck.called
    /\ lastCheck.key \in DOMAIN previousResults
    /\ previousResults[lastCheck.key].time = 0
    /\ previousResults[lastCheck.key].size < lastCheck.size
    /\ lastCheck.averageTime > ToTicks(settings.MIN_TIME_FOR_DETECTION_MS)
    /\ lastCheck.averageTime <= ToTicks(settings.MAX_EXECUTION_TIME_MS)

\* C30: after a previous time of exactly 0, a trial at a larger size with a
\* time above MIN_TIME_FOR_DETECTION_MS and not above MAX_EXECUTION_TIME_MS
\* abandons the pair, for every value of QUADRATIC_BEHAVIOR_THRESHOLD: the
\* time ratio is infinite and exceeds every threshold.
C30_ZeroPreviousTimeAbandons == ZeroPreviousTime => lastCheck.key \in abandonedScenarios

\* the case with the shipped thresholds: 10.01 ms after 0 ms, size 100 to 200
C30_Witness ==
    /\ ZeroPreviousTime
    /\ settings = BenchmarkSettings
    /\ lastCheck.averageTime = ToTicks(settings.MIN_TIME_FOR_DETECTION_MS) + 1
    /\ lastCheck.key \in abandonedScenarios

====
